---- MODULE Spec2Model ----
(***************************************************************************)
(* Model of the token verification path of the invoice agent service:     *)
(* the JWK key cache (get_jwk_keys) and the token verifier                 *)
(* (validate_token) of app/core/auth.py.                                   *)
(*                                                                         *)
(* Spec      sequential calls of get_jwk_keys and validate_token           *)
(* ConcSpec  get_jwk_keys run by concurrent threads, one step per read or  *)
(*           write of the module globals                                   *)
(***************************************************************************)
EXTENDS Integers, Sequences, FiniteSets, TLC

(***************************************************************************)
(* Program constants and bounds                                            *)
(***************************************************************************)
JWK_CACHE_DURATION == 3600

\* settings.AWS_COGNITO_CLIENT_ID, as configured
AWS_COGNITO_CLIENT_ID == "client-123"

\* the longest "keys" list a JWKS response carries
MaxKeys == 2
\* time.time() when the process starts
StartTime == 10000
\* how far the clock advances in a run
MaxElapsed == 7200
\* fetches that reach the provider in a concurrent run
MaxFetches == 2

Kids == {"k1", "k2"}
\* a key entry without a "kid" member; a token header without one
NoKid == "nokid"
\* public keys; a token is signed with the private half of one of them
Materials == {"m1", "m2"}

\* the clock moves forward by one of these amounts between calls
TickSteps == {JWK_CACHE_DURATION - 1, JWK_CACHE_DURATION}

(***************************************************************************)
(* The identity provider's answers to GET .../.well-known/jwks.json        *)
(***************************************************************************)
KeyEntries == [kid : Kids, mat : Materials] \cup {[kid |-> NoKid, mat |-> "m1"]}

RECURSIVE SeqsUpTo(_, _)
SeqsUpTo(S, n) ==
    IF n = 0 THEN {<<>>}
    ELSE LET shorter == SeqsUpTo(S, n - 1)
         IN  shorter \cup {Append(s, e) : s \in {x \in shorter : Len(x) = n - 1}, e \in S}

FetchFailures == {"ConnectionError", "HTTPError", "JSONDecodeError"}

\* what requests.get / raise_for_status / response.json() come to
Responses ==
    {[kind |-> f, keys |-> <<>>] : f \in FetchFailures}
    \cup {[kind |-> "ok", keys |-> ks] : ks \in SeqsUpTo(KeyEntries, MaxKeys)}

(***************************************************************************)
(* Tokens                                                                  *)
(***************************************************************************)
Subjects == {"sub-abc", "sub-xyz"}
Audiences == {AWS_COGNITO_CLIENT_ID, "other-client"}
Algorithms == {"RS256", "HS256"}
ExpChoices == {StartTime + JWK_CACHE_DURATION, StartTime + 100000}

\* form: "empty" the empty string, "garbled" no decodable header, "jwt" a
\* token whose header and payload decode
Tokens ==
    {[form |-> f, kid |-> NoKid, alg |-> "RS256", signer |-> "m1",
      aud |-> AWS_COGNITO_CLIENT_ID, exp |-> StartTime + 100000, sub |-> "sub-abc"]
        : f \in {"empty", "garbled"}}
    \cup [form : {"jwt"}, kid : Kids \cup {NoKid}, alg : Algorithms, signer : Materials,
          aud : Audiences, exp : ExpChoices, sub : Subjects]

(***************************************************************************)
(* State                                                                   *)
(***************************************************************************)
VARIABLES
    jwk_keys,         \* module global: kid -> key material
    last_jwk_fetch,   \* module global: time of the last successful fetch
    now,              \* time.time()
    log,              \* the call that has just returned, with what it saw
    prevFetchFailed,  \* the call before it tried to fetch and failed
    pc,               \* ConcSpec: each thread's position in get_jwk_keys
    newKeys,          \* ConcSpec: each thread's built key map, not yet stored
    result,           \* ConcSpec: what each thread's call returned
    fetchedSets,      \* ConcSpec: the key entries of each successful response
    nfetch,           \* ConcSpec: successful and failed fetches so far
    issued,           \* ConcSpec: the threads holding a fetched map not yet stored, in the order their requests were issued
    stale,            \* ConcSpec: those of them whose request was issued before the one whose keys are cached
    ikeys,            \* the integration_keys table
    nextKeyId,        \* the next autoincrement id of integration_keys
    secret,           \* settings.ENCRYPTION_KEY
    vlog,             \* the vault or cipher call that has just returned
    txn,              \* ConcVaultSpec: each session's place in IntegrationKeyRepository.create
    ncreate,          \* ConcVaultSpec: the calls of create begun so far
    tenants,          \* the tenants table
    users,            \* the users table
    nextUserId,       \* the next autoincrement id of users
    auth_enabled,     \* settings.AUTH_ENABLED
    blog,             \* the binder call that has just returned
    zlog              \* the Zoho adapter call that has just returned: the log
                      \* records it emitted and how it ended

cacheVars == <<jwk_keys, last_jwk_fetch, now>>
seqVars == <<log, prevFetchFailed>>
thrVars == <<pc, newKeys, result, fetchedSets, nfetch>>
ordVars == <<issued, stale>>
vaultVars == <<ikeys, nextKeyId, secret, vlog>>
sessVars == <<txn, ncreate>>
binderVars == <<tenants, users, nextUserId, auth_enabled, blog>>
adapterVars == <<zlog>>
dbVars == <<vaultVars, sessVars, binderVars, adapterVars>>
authVars == <<cacheVars, seqVars, thrVars, ordVars>>
vars == <<jwk_keys, last_jwk_fetch, now, log, prevFetchFailed,
          pc, newKeys, result, fetchedSets, nfetch, issued, stale,
          ikeys, nextKeyId, secret, vlog, txn, ncreate,
          tenants, users, nextUserId, auth_enabled, blog, zlog>>

Threads == {1, 2}

EmptyMap == [k \in {} |-> "m1"]

(***************************************************************************)
(* get_jwk_keys                                                            *)
(***************************************************************************)
\* CacheFresh with the age computed without last_jwk_fetch
CacheFreshNoSubtract(keys, last, t) ==
    keys # EmptyMap /\ t < JWK_CACHE_DURATION

\* line 46: the cached keys are used while non-empty and younger than the TTL
CacheFresh(keys, last, t) ==
    keys # EmptyMap /\ t - last < JWK_CACHE_DURATION

\* key['kid'] raises KeyError for an entry without one
HasAllKids(ks) == \A i \in 1..Len(ks) : ks[i].kid # NoKid

\* {key['kid']: key for key in keys}: a later entry replaces an earlier one
\* of the same kid
KeyMap(ks) ==
    [k \in {ks[i].kid : i \in 1..Len(ks)} |->
        LET last == CHOOSE i \in 1..Len(ks) :
                        /\ ks[i].kid = k
                        /\ \A j \in 1..Len(ks) : ks[j].kid = k => j <= i
        IN  ks[last].mat]

\* StoreKeys as jwk_keys.update({...}): the old entries stay
StoreKeysUpdate(old, new) ==
    [k \in DOMAIN old \cup DOMAIN new |-> IF k \in DOMAIN new THEN new[k] ELSE old[k]]

\* jwk_keys = {...}: the global is rebound to the new map
StoreKeys(old, new) == new

\* how the fetch inside the try block ends
FetchKind(resp) ==
    IF resp.kind # "ok" THEN resp.kind
    ELSE IF ~HasAllKids(resp.keys) THEN "KeyError"
    ELSE "ok"

\* FetchExcept without the last clause, except Exception
FetchExceptNoCatchAll(kind) ==
    IF kind \in {"ConnectionError", "HTTPError"} THEN [raised |-> "none", ret |-> EmptyMap]
    ELSE [raised |-> kind, ret |-> EmptyMap]

\* lines 65-73, the except clauses: each logs and returns {}
FetchExcept(kind) ==
    IF kind = "ConnectionError" THEN [raised |-> "none", ret |-> EmptyMap]
    ELSE IF kind = "HTTPError" THEN [raised |-> "none", ret |-> EmptyMap]
    ELSE [raised |-> "none", ret |-> EmptyMap]

\* get_jwk_keys returning the cached keys when the fetch fails
get_jwk_keys_stale(keys, last, t, resp) ==
    IF CacheFresh(keys, last, t)
    THEN [raised |-> "none", ret |-> keys, keys |-> keys, last |-> last, fetch |-> "none"]
    ELSE IF FetchKind(resp) = "ok"
    THEN [raised |-> "none", ret |-> KeyMap(resp.keys), keys |-> KeyMap(resp.keys),
          last |-> t, fetch |-> "ok"]
    ELSE [raised |-> "none", ret |-> keys, keys |-> keys, last |-> last,
          fetch |-> FetchKind(resp)]

\* One call of get_jwk_keys with globals (keys, last) at time t, the provider
\* answering resp if asked: what is returned or raised, the globals
\* afterwards, and how the fetch went ("none": no request was sent).
get_jwk_keys(keys, last, t, resp) ==
    IF CacheFresh(keys, last, t)
    THEN [raised |-> "none", ret |-> keys, keys |-> keys, last |-> last, fetch |-> "none"]
    ELSE IF FetchKind(resp) = "ok"
    THEN [raised |-> "none",
          ret    |-> StoreKeys(keys, KeyMap(resp.keys)),
          keys   |-> StoreKeys(keys, KeyMap(resp.keys)),
          last   |-> t,
          fetch  |-> "ok"]
    ELSE [raised |-> FetchExcept(FetchKind(resp)).raised,
          ret    |-> FetchExcept(FetchKind(resp)).ret,
          keys   |-> keys,
          last   |-> last,
          fetch  |-> FetchKind(resp)]

(***************************************************************************)
(* validate_token                                                          *)
(***************************************************************************)
Returned(payload) == [exc |-> "none", status |-> 200, detail |-> "", payload |-> payload]
Raised(exc, status, detail) ==
    [exc |-> exc, status |-> status, detail |-> detail, payload |-> [sub |-> "", aud |-> "", exp |-> 0]]
HTTPException(status, detail) == Raised("HTTPException", status, detail)

\* subclasses of jwt.InvalidTokenError other than ExpiredSignatureError
InvalidTokenErrors ==
    {"DecodeError", "InvalidAlgorithmError", "InvalidSignatureError", "InvalidAudienceError"}
\* subclasses of jwt.PyJWTError that are no InvalidTokenError
OtherPyJWTErrors == {"InvalidKeyError"}

\* JwtDecode with the audience compared to another setting
JwtDecodeWrongAudience(token, key, t) ==
    IF token.alg # "RS256" THEN Raised("InvalidAlgorithmError", 0, "")
    ELSE IF token.signer # key THEN Raised("InvalidSignatureError", 0, "")
    ELSE IF token.exp <= t THEN Raised("ExpiredSignatureError", 0, "")
    ELSE IF token.aud # "other-client" THEN Raised("InvalidAudienceError", 0, "")
    ELSE Returned([sub |-> token.sub, aud |-> token.aud, exp |-> token.exp])

\* JwtDecode with verify_exp off
JwtDecodeNoExpiry(token, key, t) ==
    IF token.alg # "RS256" THEN Raised("InvalidAlgorithmError", 0, "")
    ELSE IF token.signer # key THEN Raised("InvalidSignatureError", 0, "")
    ELSE IF token.aud # AWS_COGNITO_CLIENT_ID THEN Raised("InvalidAudienceError", 0, "")
    ELSE Returned([sub |-> token.sub, aud |-> token.aud, exp |-> token.exp])

\* jwt.decode(token, public_key, algorithms=['RS256'], audience=..., verify_exp)
JwtDecode(token, key, t) ==
    IF token.alg # "RS256" THEN Raised("InvalidAlgorithmError", 0, "")
    ELSE IF token.signer # key THEN Raised("InvalidSignatureError", 0, "")
    ELSE IF token.exp <= t THEN Raised("ExpiredSignatureError", 0, "")
    ELSE IF token.aud # AWS_COGNITO_CLIENT_ID THEN Raised("InvalidAudienceError", 0, "")
    ELSE Returned([sub |-> token.sub, aud |-> token.aud, exp |-> token.exp])

\* lines 88-128, the body of the try block; jwk is how the get_jwk_keys call
\* of line 100 ended (made only when the header decodes and carries a kid)
TryBody(token, jwk, t) ==
    IF token.form = "garbled" THEN Raised("DecodeError", 0, "")
    ELSE IF token.kid = NoKid THEN HTTPException(401, "Invalid token format")
    ELSE IF jwk.raised # "none" THEN Raised(jwk.raised, 0, "")
    ELSE LET keys == jwk.ret IN
    IF keys = EmptyMap THEN HTTPException(503, "Authentication service unavailable")
    ELSE IF token.kid \notin DOMAIN keys THEN HTTPException(401, "Invalid token signature")
    ELSE JwtDecode(token, keys[token.kid], t)

\* lines 129-152, the except clauses in their order; an HTTPException raised
\* in the try block is an Exception and reaches the last clause
ExceptClauses(r) ==
    IF r.exc = "none" THEN r
    ELSE IF r.exc = "ExpiredSignatureError" THEN HTTPException(401, "Token has expired")
    ELSE IF r.exc \in InvalidTokenErrors THEN HTTPException(401, "Invalid token format")
    ELSE IF r.exc \in OtherPyJWTErrors THEN HTTPException(401, "Invalid token: error")
    ELSE HTTPException(500, "Authentication error")

\* get_jwk_keys is reached only past the header checks of lines 89-97
CallsGetJwkKeys(token) == token.form = "jwt" /\ token.kid # NoKid

NotCalled(keys, last) == [raised |-> "none", ret |-> EmptyMap, keys |-> keys, last |-> last, fetch |-> "notcalled"]

\* One call of validate_token: its outcome and the get_jwk_keys call it made
validate_token(token, keys, last, t, resp) ==
    IF token.form = "empty"
    THEN [out |-> HTTPException(401, "Invalid authentication credentials"),
          jwk |-> NotCalled(keys, last)]
    ELSE LET jwk == IF CallsGetJwkKeys(token) THEN get_jwk_keys(keys, last, t, resp)
                    ELSE NotCalled(keys, last)
         IN  [out |-> ExceptClauses(TryBody(token, jwk, t)), jwk |-> jwk]

(***************************************************************************)
(* Sequential specification                                                *)
(***************************************************************************)
NoToken == [form |-> "none", kid |-> NoKid, alg |-> "RS256", signer |-> "m1",
            aud |-> AWS_COGNITO_CLIENT_ID, exp |-> 0, sub |-> ""]
NoLog == [op |-> "none", token |-> NoToken, at |-> 0,
          prevKeys |-> EmptyMap, prevFetch |-> 0,
          jwk |-> NotCalled(EmptyMap, 0), out |-> Returned([sub |-> "", aud |-> "", exp |-> 0]),
          entries |-> {}, afterFailed |-> FALSE]

\* ---------------------------------------------------------------------
\* The credential cipher and the credential vault:
\* src/app/services/auth_service.py, src/app/core/security.py,
\* src/app/db/repositories/integration_repository.py

\* Python values that reach the cipher and the vault
PyNone == [type |-> "NoneType"]
Str(s) == [type |-> "str", s |-> s]
PyInt(n) == [type |-> "int", n |-> n]

\* bool(v), as "not access_token" and "if existing_key" take it
Truthy(v) ==
    IF v.type = "NoneType" THEN FALSE
    ELSE IF v.type = "str" THEN v.s # ""
    ELSE v.n # 0

\* How a call ends: a value, or an exception with its str()
Value(v) == [exc |-> "none", msg |-> "", value |-> v]
Throws(exc, msg) == [exc |-> exc, msg |-> msg, value |-> PyNone]

\* settings.ENCRYPTION_KEY: the default (not set), a secret that is not 32
\* bytes long, and a secret of 32 bytes
NoSecret == ""
Secrets == {NoSecret, "short-secret", "secret-of-32-bytes-aaaaaaaaaaaaa"}
WorkingSecrets == Secrets \ {NoSecret}
\* a key as Fernet.generate_key() gives it: the url-safe base64 text of 32 bytes
AFernetKey == "ZmVybmV0LWtleS1vZi0zMi1ieXRlcy1hYWFhYWFhYWE="

\* A Fernet cipher is its 32 bytes of key: the bytes of a secret ("raw"), the
\* SHA-256 digest of a secret ("sha256"), or what a base64 text decodes to.
\* A Fernet token is the plaintext under a key; decrypt ignores the token's
\* IV and timestamp, which are left out.
FernetEncrypt(f, data) == [key |-> f, pt |-> data]
FernetDecrypt(f, token) ==
    IF token.key = f THEN Value(Str(token.pt)) ELSE Throws("InvalidToken", "")

\* AuthService.__init__ keeps the configured secret and checks nothing
AuthService_init(key) == Value([encryption_key |-> key])

\* AuthService._create_cipher
_create_cipher(encryption_key) ==
    IF encryption_key = NoSecret
    THEN Throws("ValueError", "Encryption key not configured")
    ELSE IF Len(encryption_key) # 32
    THEN Value([from |-> "sha256", of |-> encryption_key])
    ELSE Value([from |-> "raw", of |-> encryption_key])

\* AuthService._encrypt_token: the cipher first, then token.encode()
_encrypt_token(encryption_key, token) ==
    LET cipher == _create_cipher(encryption_key) IN
    IF cipher.exc # "none" THEN cipher
    ELSE IF token.type # "str"
    THEN Throws("AttributeError", "object has no attribute 'encode'")
    ELSE Value(FernetEncrypt(cipher.value, token.s))

\* _decrypt_token building the cipher from the secret as configured, without
\* the normalisation to 32 bytes
_decrypt_token_raw_key(encryption_key, encrypted_token) ==
    IF encryption_key = NoSecret
    THEN Throws("ValueError", "Encryption key not configured")
    ELSE FernetDecrypt([from |-> "raw", of |-> encryption_key], encrypted_token)

\* AuthService._decrypt_token
_decrypt_token(encryption_key, encrypted_token) ==
    LET cipher == _create_cipher(encryption_key) IN
    IF cipher.exc # "none" THEN cipher
    ELSE FernetDecrypt(cipher.value, encrypted_token)

\* EncryptionService.__init__: Fernet(key) takes the base64 text of 32 bytes
\* (44 characters) and raises ValueError on anything else
EncryptionService_init(key) ==
    IF Len(key) = 44
    THEN Value([from |-> "b64decode", of |-> key])
    ELSE Throws("ValueError", "Fernet key must be 32 url-safe base64-encoded bytes.")

\* EncryptionService.encrypt and EncryptionService.decrypt of a str
EncryptionService_encrypt(fernet, data) == Value(FernetEncrypt(fernet, data.s))
EncryptionService_decrypt(fernet, encrypted_data) == FernetDecrypt(fernet, encrypted_data)

\* The tenants and integration types the vault is driven with; the tenants
\* exist (integration_keys.tenant_id is a foreign key)
TenantIds == {"t1", "t2"}
IntegrationTypes == {"zoho"}
\* expires_at against the clock, which stands at StartTime: past, now, future
ExpiresAts == {StartTime - 1, StartTime, StartTime + 1}

\* json.dumps(d) is a non-empty str; json.loads gives the dict back
JsonDumps(d) == [type |-> "str", s |-> "json", json |-> d]
JsonLoads(j) == j.json
EmptyDict == [k \in {} |-> PyNone]

\* token_data as the callers build it: the two tokens (None when the key is
\* absent) and the other keys of the dict
TokenData ==
    { [access_token |-> Str("A1"), refresh_token |-> Str("R1"), extra |-> EmptyDict],
      [access_token |-> Str("A2"), refresh_token |-> Str("R2"),
       extra |-> [k \in {"scope"} |-> Str("full")]],
      [access_token |-> PyNone, refresh_token |-> Str("R1"), extra |-> EmptyDict],
      [access_token |-> Str("A1"), refresh_token |-> Str(""), extra |-> EmptyDict],
      [access_token |-> Str("A2"), refresh_token |-> PyInt(7), extra |-> EmptyDict] }

Externals ==
    { [org_id |-> PyNone, tenant_id_external |-> PyNone],
      [org_id |-> Str("org-1"), tenant_id_external |-> Str("ext-1")] }

\* The arguments of store_integration_tokens
StoreCalls ==
    { [tenant_id |-> t, integration_type |-> i, token_data |-> d, expires_at |-> e,
       org_id |-> x.org_id, tenant_id_external |-> x.tenant_id_external] :
      t \in TenantIds, i \in IntegrationTypes, d \in TokenData, e \in ExpiresAts,
      x \in Externals }

\* The arguments of IntegrationKeyRepository.create: the tokens are
\* ciphertexts, written by a service configured with secret k
CreateCallsOver(pairs, secrets, expiries, externals) ==
    { [tenant_id |-> t, integration_type |-> i,
       access_token |-> FernetEncrypt(_create_cipher(k).value, p[1]),
       refresh_token |-> FernetEncrypt(_create_cipher(k).value, p[2]),
       expires_at |-> e, org_id |-> x.org_id,
       tenant_id_external |-> x.tenant_id_external,
       additional_data |-> IF x.org_id = PyNone THEN PyNone
                           ELSE JsonDumps([j \in {"scope"} |-> Str("full")])] :
      t \in TenantIds, i \in IntegrationTypes, p \in pairs, k \in secrets,
      e \in expiries, x \in externals }
TokenPairs == {<<"A1", "R1">>, <<"A2", "R2">>}
CreateCalls == CreateCallsOver(TokenPairs, WorkingSecrets, ExpiresAts, Externals)

\* IntegrationKey(...): a row of integration_keys
IntegrationKey(id, a) ==
    [id |-> id, tenant_id |-> a.tenant_id, integration_type |-> a.integration_type,
     access_token |-> a.access_token, refresh_token |-> a.refresh_token,
     expires_at |-> a.expires_at, org_id |-> a.org_id,
     tenant_id_external |-> a.tenant_id_external,
     additional_data |-> a.additional_data]

\* IntegrationKeyRepository.get_by_tenant_and_type: the rows the query
\* matches; .first() gives one of them (there is no ORDER BY), None if none
get_by_tenant_and_type(rows, tenant_id, integration_type) ==
    {r \in rows : r.tenant_id = tenant_id /\ r.integration_type = integration_type}
First(matching) == IF matching = {} THEN {PyNone} ELSE matching

\* IntegrationKeyRepository.create once its lookup gave existing_key:
\* update that row and commit, or insert a new row and commit
integration_repo_create(rows, nextId, existing_key, a) ==
    IF existing_key # PyNone
    THEN LET updated == IntegrationKey(existing_key.id, a) IN
         [ret |-> updated,
          rows |-> {r \in rows : r.id # existing_key.id} \cup {updated},
          nextId |-> nextId]
    ELSE [ret |-> IntegrationKey(nextId, a),
          rows |-> rows \cup {IntegrationKey(nextId, a)},
          nextId |-> nextId + 1]

\* The methods class IntegrationKeyRepository defines
RepositoryMethods ==
    {"create", "get_by_id", "get_by_tenant_and_type", "get_all_by_tenant",
     "update", "delete", "delete_by_tenant_and_type"}

ErrorDict(msg) == [error |-> msg]

\* store_integration_tokens writing the encrypted access token to the stored
\* row before it encrypts the refresh token
store_integration_tokens_eager(rows, nextId, encryption_key, a) ==
    LET access_token == a.token_data.access_token
        refresh_token == a.token_data.refresh_token
        encrypted_access == _encrypt_token(encryption_key, access_token)
        encrypted_refresh == _encrypt_token(encryption_key, refresh_token)
        written == {IF r.tenant_id = a.tenant_id /\ r.integration_type = a.integration_type
                    THEN [r EXCEPT !.access_token = encrypted_access.value]
                    ELSE r : r \in rows}
        Failed(e, rs) == [out |-> ErrorDict("Failed to store integration tokens: " \o e.msg),
                          rows |-> rs, nextId |-> nextId]
    IN  IF ~Truthy(access_token) \/ ~Truthy(refresh_token)
        THEN [out |-> ErrorDict("Missing required tokens"), rows |-> rows, nextId |-> nextId]
        ELSE IF encrypted_access.exc # "none" THEN Failed(encrypted_access, rows)
        ELSE IF encrypted_refresh.exc # "none" THEN Failed(encrypted_refresh, written)
        ELSE Failed(Throws("AttributeError",
                 "'IntegrationKeyRepository' object has no attribute 'create_or_update'"),
                 written)

\* store_integration_tokens testing the access token only
store_integration_tokens_access_only(rows, nextId, encryption_key, a) ==
    LET access_token == a.token_data.access_token
        refresh_token == a.token_data.refresh_token
        encrypted_access == _encrypt_token(encryption_key, access_token)
        encrypted_refresh == _encrypt_token(encryption_key, refresh_token)
        additional_json == IF DOMAIN a.token_data.extra # {}
                           THEN JsonDumps(a.token_data.extra) ELSE PyNone
        Failed(e) == [out |-> ErrorDict("Failed to store integration tokens: " \o e.msg),
                      rows |-> rows, nextId |-> nextId]
    IN  IF ~Truthy(access_token)
        THEN [out |-> ErrorDict("Missing required tokens"), rows |-> rows, nextId |-> nextId]
        ELSE IF encrypted_access.exc # "none" THEN Failed(encrypted_access)
        ELSE IF encrypted_refresh.exc # "none" THEN Failed(encrypted_refresh)
        ELSE IF "create_or_update" \notin RepositoryMethods
        THEN Failed(Throws("AttributeError",
                 "'IntegrationKeyRepository' object has no attribute 'create_or_update'"))
        ELSE LET made == integration_repo_create(rows, nextId, PyNone,
                             [tenant_id |-> a.tenant_id,
                              integration_type |-> a.integration_type,
                              access_token |-> encrypted_access.value,
                              refresh_token |-> encrypted_refresh.value,
                              expires_at |-> a.expires_at, org_id |-> a.org_id,
                              tenant_id_external |-> a.tenant_id_external,
                              additional_data |-> additional_json])
             IN [out |-> [success |-> TRUE, tenant_id |-> a.tenant_id,
                          integration_type |-> made.ret.integration_type,
                          expires_at |-> made.ret.expires_at],
                 rows |-> made.rows, nextId |-> made.nextId]

\* AuthService.store_integration_tokens: what it returns and the table
\* afterwards. Line 194 calls integration_repo.create_or_update, which
\* IntegrationKeyRepository does not define: the call raises AttributeError,
\* and the except clause of line 212 turns every exception into an error dict.
store_integration_tokens(rows, nextId, encryption_key, a) ==
    LET access_token == a.token_data.access_token
        refresh_token == a.token_data.refresh_token
        encrypted_access == _encrypt_token(encryption_key, access_token)
        encrypted_refresh == _encrypt_token(encryption_key, refresh_token)
        additional_json == IF DOMAIN a.token_data.extra # {}
                           THEN JsonDumps(a.token_data.extra) ELSE PyNone
        Failed(e) == [out |-> ErrorDict("Failed to store integration tokens: " \o e.msg),
                      rows |-> rows, nextId |-> nextId]
    IN  IF ~Truthy(access_token) \/ ~Truthy(refresh_token)
        THEN [out |-> ErrorDict("Missing required tokens"), rows |-> rows, nextId |-> nextId]
        ELSE IF encrypted_access.exc # "none" THEN Failed(encrypted_access)
        ELSE IF encrypted_refresh.exc # "none" THEN Failed(encrypted_refresh)
        ELSE IF "create_or_update" \notin RepositoryMethods
        THEN Failed(Throws("AttributeError",
                 "'IntegrationKeyRepository' object has no attribute 'create_or_update'"))
        ELSE LET made == integration_repo_create(rows, nextId, PyNone,
                             [tenant_id |-> a.tenant_id,
                              integration_type |-> a.integration_type,
                              access_token |-> encrypted_access.value,
                              refresh_token |-> encrypted_refresh.value,
                              expires_at |-> a.expires_at, org_id |-> a.org_id,
                              tenant_id_external |-> a.tenant_id_external,
                              additional_data |-> additional_json])
             IN [out |-> [success |-> TRUE, tenant_id |-> a.tenant_id,
                          integration_type |-> made.ret.integration_type,
                          expires_at |-> made.ret.expires_at],
                 rows |-> made.rows, nextId |-> made.nextId]

\* result.update(additional)
DictUpdate(d, e) == [k \in DOMAIN d \cup DOMAIN e |-> IF k \in DOMAIN e THEN e[k] ELSE d[k]]

\* get_integration_tokens answering None whenever the try block raises
get_integration_tokens_masking(integration_key, encryption_key, t) ==
    IF integration_key = PyNone THEN PyNone
    ELSE IF t >= integration_key.expires_at
    THEN LET refresh == _decrypt_token(encryption_key, integration_key.refresh_token) IN
         IF refresh.exc # "none" THEN PyNone
         ELSE [error |-> "Token expired", refresh_token |-> refresh.value,
               expires_at |-> integration_key.expires_at]
    ELSE LET access == _decrypt_token(encryption_key, integration_key.access_token)
             refresh == _decrypt_token(encryption_key, integration_key.refresh_token)
         IN  IF access.exc # "none" \/ refresh.exc # "none" THEN PyNone
             ELSE [access_token |-> access.value, refresh_token |-> refresh.value,
                   expires_at |-> integration_key.expires_at,
                   org_id |-> integration_key.org_id,
                   tenant_id_external |-> integration_key.tenant_id_external]

\* AuthService.get_integration_tokens at time t, the lookup of line 224
\* having given integration_key (a row or None)
get_integration_tokens(integration_key, encryption_key, t) ==
    LET Failed(e) == ErrorDict("Failed to retrieve integration tokens: " \o e.msg) IN
    IF integration_key = PyNone THEN PyNone
    ELSE IF t >= integration_key.expires_at
    THEN LET refresh == _decrypt_token(encryption_key, integration_key.refresh_token) IN
         IF refresh.exc # "none" THEN Failed(refresh)
         ELSE [error |-> "Token expired", refresh_token |-> refresh.value,
               expires_at |-> integration_key.expires_at]
    ELSE LET access == _decrypt_token(encryption_key, integration_key.access_token)
             refresh == _decrypt_token(encryption_key, integration_key.refresh_token)
             tokens == [access_token |-> access.value, refresh_token |-> refresh.value,
                        expires_at |-> integration_key.expires_at,
                        org_id |-> integration_key.org_id,
                        tenant_id_external |-> integration_key.tenant_id_external]
         IN  IF access.exc # "none" THEN Failed(access)
             ELSE IF refresh.exc # "none" THEN Failed(refresh)
             ELSE IF Truthy(integration_key.additional_data)
             THEN DictUpdate(tokens, JsonLoads(integration_key.additional_data))
             ELSE tokens

\* ---------------------------------------------------------------------
\* The identity binder: src/app/services/auth_service.py,
\* src/app/core/auth.py, the tenant and user repositories

Emails == {"a@x.com", "b@x.com"}
\* users.first_name is String(100): a name that fits and one of 101 characters
FirstNameColumn == 100
LongName == "NNNNNNNNNNNNNNNNNNNNNNNNNNNNNNNNNNNNNNNNNNNNNNNNNNNNNNNNNNNNNNNNNNNNNNNNNNNNNNNNNNNNNNNNNNNNNNNNNNNNN"
TenantDatas == [business_name : {"Acme"}, email : Emails]
UserDatas == [email : {"ann@x.com"}, first_name : {"Ann", LongName}, last_name : {"Lee"}]
CognitoIds == {PyNone} \cup {Str(sub) : sub \in Subjects}

\* generate_uuid(): an id no tenant has
generate_uuid(rows) == CHOOSE id \in TenantIds : \A t \in rows : t.id # id

\* TenantRepository.create: the insert and its commit
tenant_repo_create(rows, tenant_data) ==
    LET db_tenant == [id |-> generate_uuid(rows),
                      business_name |-> tenant_data.business_name,
                      email |-> tenant_data.email]
    IN  [ret |-> db_tenant, rows |-> rows \cup {db_tenant}]

\* UserRepository.create: the insert and its commit, which MySQL refuses
\* when a value does not fit its column or repeats a cognito_id (the column
\* is unique)
user_repo_create(rows, nextId, user_data) ==
    LET db_user == [id |-> nextId, cognito_id |-> user_data.cognito_id,
                    email |-> user_data.email, first_name |-> user_data.first_name,
                    last_name |-> user_data.last_name, tenant_id |-> user_data.tenant_id,
                    role |-> user_data.role, status |-> user_data.status]
    IN  IF Len(user_data.first_name) > FirstNameColumn
        THEN [exc |-> "DataError", msg |-> "Data too long for column 'first_name'",
              rows |-> rows, nextId |-> nextId]
        ELSE IF \E u \in rows : u.cognito_id = user_data.cognito_id
        THEN [exc |-> "IntegrityError", msg |-> "Duplicate entry for key 'cognito_id'",
              rows |-> rows, nextId |-> nextId]
        ELSE [exc |-> "none", msg |-> "", ret |-> db_user,
              rows |-> rows \cup {db_user}, nextId |-> nextId + 1]

\* create_tenant_with_admin looking for the subject only once the tenant is
\* in its table
create_tenant_with_admin_late_check(tenantRows, userRows, nextId, tenant_data, user_data, cognito_id) ==
    IF \E t \in tenantRows : t.email = tenant_data.email
    THEN [out |-> ErrorDict("A tenant with this email already exists"),
          tenants |-> tenantRows, users |-> userRows, nextId |-> nextId]
    ELSE LET tenant == tenant_repo_create(tenantRows, tenant_data) IN
         IF cognito_id.type = "str" /\ \E u \in userRows : u.cognito_id = cognito_id.s
         THEN [out |-> ErrorDict("User already exists"),
               tenants |-> tenant.rows, users |-> userRows, nextId |-> nextId]
         ELSE IF cognito_id.type # "str"
         THEN [out |-> ErrorDict("Failed to create tenant: cognito_id: str type expected"),
               tenants |-> tenant.rows, users |-> userRows, nextId |-> nextId]
         ELSE LET user == user_repo_create(userRows, nextId,
                              [cognito_id |-> cognito_id.s, email |-> user_data.email,
                               first_name |-> user_data.first_name,
                               last_name |-> user_data.last_name,
                               tenant_id |-> tenant.ret.id, role |-> "admin",
                               status |-> "pending_confirmation"])
              IN  IF user.exc # "none"
                  THEN [out |-> ErrorDict("Failed to create tenant: " \o user.msg),
                        tenants |-> tenant.rows, users |-> userRows, nextId |-> nextId]
                  ELSE [out |-> [tenant |-> tenant.ret, user |-> user.ret],
                        tenants |-> tenant.rows, users |-> user.rows,
                        nextId |-> user.nextId]

\* AuthService.create_tenant_with_admin: what it returns and the two tables
\* afterwards. tenant_repo.create has committed the tenant when
\* UserCreateWithCognito(...) or user_repo.create raises; the except clause of
\* line 111 returns an error dict and undoes nothing.
create_tenant_with_admin(tenantRows, userRows, nextId, tenant_data, user_data, cognito_id) ==
    IF \E t \in tenantRows : t.email = tenant_data.email
    THEN [out |-> ErrorDict("A tenant with this email already exists"),
          tenants |-> tenantRows, users |-> userRows, nextId |-> nextId]
    ELSE IF cognito_id.type = "str" /\ \E u \in userRows : u.cognito_id = cognito_id.s
    THEN [out |-> ErrorDict("User already exists"),
          tenants |-> tenantRows, users |-> userRows, nextId |-> nextId]
    ELSE LET tenant == tenant_repo_create(tenantRows, tenant_data) IN
         IF cognito_id.type # "str"
         THEN [out |-> ErrorDict("Failed to create tenant: cognito_id: str type expected"),
               tenants |-> tenant.rows, users |-> userRows, nextId |-> nextId]
         ELSE LET user == user_repo_create(userRows, nextId,
                              [cognito_id |-> cognito_id.s, email |-> user_data.email,
                               first_name |-> user_data.first_name,
                               last_name |-> user_data.last_name,
                               tenant_id |-> tenant.ret.id, role |-> "admin",
                               status |-> "pending_confirmation"])
              IN  IF user.exc # "none"
                  THEN [out |-> ErrorDict("Failed to create tenant: " \o user.msg),
                        tenants |-> tenant.rows, users |-> userRows, nextId |-> nextId]
                  ELSE [out |-> [tenant |-> tenant.ret, user |-> user.ret],
                        tenants |-> tenant.rows, users |-> user.rows,
                        nextId |-> user.nextId]

\* The User(...) of lines 171-180
DevUser ==
    [id |-> 1, cognito_id |-> "dev-user-id", email |-> "dev@example.com",
     first_name |-> "Development", last_name |-> "User",
     tenant_id |-> "00000000-0000-0000-0000-000000000000",
     role |-> "admin", status |-> "active"]

\* create_mocked_user, given what user_repo.get_all(limit=1) returned: a
\* sequence of at most one row
create_mocked_user(got) == IF got # <<>> THEN got[1] ELSE DevUser

\* UserRepository.get_all(limit=1): the query has no ORDER BY, so any row
\* may come first
get_all_limit_1(rows) == IF rows = {} THEN {<<>>} ELSE {<<u>> : u \in rows}

\* The bearer tokens the binder is driven with, some of them with no sub
\* claim, and no Authorization header
BearerTokens ==
    LET signed == {t \in Tokens : t.form = "jwt" =>
                     t.alg = "RS256" /\ t.aud = AWS_COGNITO_CLIENT_ID
                     /\ t.exp = StartTime + 100000}
    IN  signed \cup {[t EXCEPT !.sub = ""] : t \in {s \in signed : s.form = "jwt"}}
NoCredentials == NoToken

\* get_current_user without the test of user.status
get_current_user_any_status(enabled, credentials, got, userRows, keys, last, t, resp) ==
    IF ~enabled
    THEN [out |-> Returned(create_mocked_user(got)), jwk |-> NotCalled(keys, last)]
    ELSE IF credentials = NoCredentials
    THEN [out |-> HTTPException(401, "Authentication required"), jwk |-> NotCalled(keys, last)]
    ELSE LET v == validate_token(credentials, keys, last, t, resp)
             found == {u \in userRows : u.cognito_id = v.out.payload.sub}
         IN  IF v.out.exc # "none" THEN v
             ELSE IF v.out.payload.sub = ""
             THEN [out |-> HTTPException(401, "Invalid user identity in token"), jwk |-> v.jwk]
             ELSE IF found = {}
             THEN [out |-> HTTPException(404, "User not found"), jwk |-> v.jwk]
             ELSE [out |-> Returned(CHOOSE u \in found : TRUE), jwk |-> v.jwk]

\* get_current_user: its outcome and the get_jwk_keys call made on the way
get_current_user(enabled, credentials, got, userRows, keys, last, t, resp) ==
    IF ~enabled
    THEN [out |-> Returned(create_mocked_user(got)), jwk |-> NotCalled(keys, last)]
    ELSE IF credentials = NoCredentials
    THEN [out |-> HTTPException(401, "Authentication required"), jwk |-> NotCalled(keys, last)]
    ELSE LET v == validate_token(credentials, keys, last, t, resp)
             found == {u \in userRows : u.cognito_id = v.out.payload.sub}
         IN  IF v.out.exc # "none" THEN v
             ELSE IF v.out.payload.sub = ""
             THEN [out |-> HTTPException(401, "Invalid user identity in token"), jwk |-> v.jwk]
             ELSE IF found = {}
             THEN [out |-> HTTPException(404, "User not found"), jwk |-> v.jwk]
             ELSE LET user == CHOOSE u \in found : TRUE IN
                  IF user.status # "active"
                  THEN [out |-> HTTPException(403, "User account is inactive or suspended"),
                        jwk |-> v.jwk]
                  ELSE [out |-> Returned(user), jwk |-> v.jwk]

\* enums UserStatus and UserRole
UserStatuses == {"active", "inactive", "pending_confirmation"}
UserRoles == {"admin", "user", "viewer"}

\* UserRepository.get_by_cognito_id, get_by_id: the row or None
get_by_cognito_id(rows, cognito_id) ==
    IF \E u \in rows : Str(u.cognito_id) = cognito_id
    THEN CHOOSE u \in rows : Str(u.cognito_id) = cognito_id ELSE PyNone
user_get_by_id(rows, user_id) ==
    IF \E u \in rows : u.id = user_id
    THEN CHOOSE u \in rows : u.id = user_id ELSE PyNone

\* add_user_to_tenant looking for the subject among the users of the given
\* tenant only
add_user_to_tenant_own_tenant(tenantRows, userRows, nextId, tenant_id, user_data, cognito_id) ==
    LET Same(rows) == [out |-> rows.out, users |-> userRows, nextId |-> nextId]
        own == {u \in userRows : u.tenant_id = tenant_id}
    IN  IF ~\E t \in tenantRows : t.id = tenant_id
        THEN Same([out |-> ErrorDict("Tenant not found")])
        ELSE IF get_by_cognito_id(own, cognito_id) # PyNone
        THEN Same([out |-> ErrorDict("User already exists")])
        ELSE IF cognito_id.type # "str"
        THEN Same([out |-> ErrorDict("Failed to add user: cognito_id: str type expected")])
        ELSE LET user == user_repo_create(userRows, nextId,
                             [cognito_id |-> cognito_id.s, email |-> user_data.email,
                              first_name |-> user_data.first_name,
                              last_name |-> user_data.last_name,
                              tenant_id |-> tenant_id, role |-> "user",
                              status |-> "pending_confirmation"])
             IN  IF user.exc # "none"
                 THEN Same([out |-> ErrorDict("Failed to add user: " \o user.msg)])
                 ELSE [out |-> [user |-> [id |-> user.ret.id, email |-> user.ret.email,
                                          role |-> user.ret.role,
                                          status |-> user.ret.status]],
                       users |-> user.rows, nextId |-> user.nextId]

\* AuthService.add_user_to_tenant: what it returns and the users table
\* afterwards. role and status are taken out of user_data, so the new row
\* has the defaults of UserCreate.
add_user_to_tenant(tenantRows, userRows, nextId, tenant_id, user_data, cognito_id) ==
    LET Same(rows) == [out |-> rows.out, users |-> userRows, nextId |-> nextId] IN
    IF ~\E t \in tenantRows : t.id = tenant_id
    THEN Same([out |-> ErrorDict("Tenant not found")])
    ELSE IF get_by_cognito_id(userRows, cognito_id) # PyNone
    THEN Same([out |-> ErrorDict("User already exists")])
    ELSE IF cognito_id.type # "str"
    THEN Same([out |-> ErrorDict("Failed to add user: cognito_id: str type expected")])
    ELSE LET user == user_repo_create(userRows, nextId,
                         [cognito_id |-> cognito_id.s, email |-> user_data.email,
                          first_name |-> user_data.first_name,
                          last_name |-> user_data.last_name,
                          tenant_id |-> tenant_id, role |-> "user",
                          status |-> "pending_confirmation"])
         IN  IF user.exc # "none"
             THEN Same([out |-> ErrorDict("Failed to add user: " \o user.msg)])
             ELSE [out |-> [user |-> [id |-> user.ret.id, email |-> user.ret.email,
                                      role |-> user.ret.role,
                                      status |-> user.ret.status]],
                   users |-> user.rows, nextId |-> user.nextId]

\* The request bodies of PATCH /users/{user_id}; two of them carry a
\* tenant_id
UpdateBodies ==
    {[status |-> "active"],
     [first_name |-> "Bob", tenant_id |-> "t1"],
     [first_name |-> "Bob", tenant_id |-> "t2"]}
\* The bodies of PATCH /users/status/{cognito_id}, read as status_update.status
StatusUpdates == [status : UserStatuses]
UserIds == 1 .. (Cardinality(Subjects) + 1)

\* a UserUpdate that has a tenant_id field as well
UserUpdateWithTenant(body) ==
    [k \in DOMAIN body \cap {"first_name", "last_name", "role", "status", "tenant_id"}
        |-> body[k]]

\* UserUpdate(**body).dict(exclude_unset=True): the fields of the schema that
\* the body sets; pydantic drops the other keys of the body
UserUpdate(body) ==
    [k \in DOMAIN body \cap {"first_name", "last_name", "role", "status"} |-> body[k]]

\* for key, value in update_dict.items(): setattr(user, key, value)
SetAttrs(user, update_dict) ==
    [k \in DOMAIN user |-> IF k \in DOMAIN update_dict THEN update_dict[k] ELSE user[k]]

\* UserRepository.update: the row returned (or None) and the table afterwards
user_repo_update(rows, user_id, update_data) ==
    LET user == user_get_by_id(rows, user_id) IN
    IF user = PyNone THEN [ret |-> PyNone, rows |-> rows]
    ELSE LET updated == SetAttrs(user, update_data) IN
         [ret |-> updated, rows |-> (rows \ {user}) \cup {updated}]

\* UserRepository.update_by_cognito_id
update_by_cognito_id(rows, cognito_id, update_data) ==
    LET user == get_by_cognito_id(rows, Str(cognito_id)) IN
    IF user = PyNone THEN [ret |-> PyNone, rows |-> rows]
    ELSE LET updated == SetAttrs(user, update_data) IN
         [ret |-> updated, rows |-> (rows \ {user}) \cup {updated}]

\* UserRepository.update_status_by_cognito_id
update_status_by_cognito_id(rows, cognito_id, status_update) ==
    LET user == get_by_cognito_id(rows, Str(cognito_id)) IN
    IF user = PyNone THEN [ret |-> PyNone, rows |-> rows]
    ELSE LET updated == [user EXCEPT !.status = status_update.status] IN
         [ret |-> updated, rows |-> (rows \ {user}) \cup {updated}]

\* AuthService.update_user
update_user(rows, user_id, update_data) ==
    LET r == user_repo_update(rows, user_id, update_data) IN
    IF r.ret = PyNone THEN [out |-> ErrorDict("User not found"), users |-> r.rows]
    ELSE [out |-> [user |-> [id |-> r.ret.id, email |-> r.ret.email,
                             first_name |-> r.ret.first_name,
                             last_name |-> r.ret.last_name,
                             role |-> r.ret.role, status |-> r.ret.status]],
          users |-> r.rows]

\* AuthService.update_user_status_by_cognito_id
update_user_status_by_cognito_id(rows, cognito_id, status_update) ==
    LET r == update_status_by_cognito_id(rows, cognito_id, status_update) IN
    IF r.ret = PyNone
    THEN [out |-> ErrorDict("User not found with the provided cognito_id"), users |-> r.rows]
    ELSE [out |-> [success |-> TRUE,
                   user |-> [id |-> r.ret.id, email |-> r.ret.email,
                             status |-> r.ret.status, tenant_id |-> r.ret.tenant_id]],
          users |-> r.rows]

\* What get_current_user can hand to a route
CurrentUsers(enabled, rows) ==
    IF enabled THEN {u \in rows : u.status = "active"}
    ELSE {create_mocked_user(got) : got \in get_all_limit_1(rows)}

\* check_admin_role
check_admin_role(current_user) ==
    IF current_user.role # "admin"
    THEN HTTPException(403, "Admin role required")
    ELSE Returned(current_user)

\* PATCH /users/{user_id}
update_user_info(current_user, rows, user_id, body) ==
    LET user == user_get_by_id(rows, user_id) IN
    IF check_admin_role(current_user).exc # "none"
    THEN [out |-> check_admin_role(current_user), users |-> rows]
    ELSE IF user = PyNone \/ user.tenant_id # current_user.tenant_id
    THEN [out |-> HTTPException(404, "User not found"), users |-> rows]
    ELSE LET r == update_user(rows, user_id, UserUpdate(body)) IN
         IF "error" \in DOMAIN r.out
         THEN [out |-> HTTPException(400, r.out.error), users |-> r.users]
         ELSE [out |-> Returned(r.out), users |-> r.users]

\* PATCH /users/status/{cognito_id}
update_user_status(current_user, rows, cognito_id, status_update) ==
    IF check_admin_role(current_user).exc # "none"
    THEN [out |-> check_admin_role(current_user), users |-> rows]
    ELSE LET r == update_user_status_by_cognito_id(rows, cognito_id, status_update) IN
         IF "error" \in DOMAIN r.out
         THEN [out |-> HTTPException(404, r.out.error), users |-> r.users]
         ELSE [out |-> Returned(r.out), users |-> r.users]

\* TenantRepository.delete. Tenant.users and Tenant.integration_keys are
\* relationships with no delete cascade, so the flush first sets tenant_id of
\* the tenant's users and integration keys to NULL; the columns are NOT NULL
\* and the commit raises, the tables staying as they were.
tenant_repo_delete(tenantRows, userRows, keyRows, tenant_id) ==
    LET tenant == {t \in tenantRows : t.id = tenant_id} IN
    IF tenant = {}
    THEN [exc |-> "none", ret |-> FALSE, tenants |-> tenantRows]
    ELSE IF \/ \E u \in userRows : u.tenant_id = tenant_id
            \/ \E k \in keyRows : k.tenant_id = tenant_id
    THEN [exc |-> "IntegrityError", ret |-> FALSE, tenants |-> tenantRows]
    ELSE [exc |-> "none", ret |-> TRUE, tenants |-> tenantRows \ tenant]

\* IntegrationKeyRepository.create with the tenants table in view:
\* integration_keys.tenant_id is a foreign key to tenants.id
integration_repo_create_fk(tenantRows, rows, nextId, existing_key, a) ==
    IF ~\E t \in tenantRows : t.id = a.tenant_id
    THEN [exc |-> "IntegrityError", rows |-> rows, nextId |-> nextId]
    ELSE LET r == integration_repo_create(rows, nextId, existing_key, a) IN
         [exc |-> "none", rows |-> r.rows, nextId |-> r.nextId]

\* ---------------------------------------------------------------------
\* The Zoho adapter: src/app/integrations/zoho.py

ZOHO_CLIENT_ID == "zoho-client"
ZOHO_CLIENT_SECRET == "zoho-secret"
ZOHO_REDIRECT_URI == "https://app/callback"
MASKED == "***MASKED***"

AuthCodes == {"code-1", "code-2"}
RefreshTokens == {"R1", "R2"}
StatusCodes == {200, 400}

\* The JSON objects the token endpoint answers with: any of the fields of a
\* token response and of an error response
ResponseFields ==
    [access_token |-> {"A1"}, refresh_token |-> {"R1", "R3"},
     expires_in |-> {"3600"}, error |-> {"invalid_code"}]
ResponseBodies ==
    UNION {[keys -> UNION {ResponseFields[k] : k \in keys}] :
              keys \in SUBSET DOMAIN ResponseFields}
WellTyped(body) == \A k \in DOMAIN body : body[k] \in ResponseFields[k]

\* What client.post and response.json() can give: a JSON object with a
\* status code, no content, content that is no JSON, or no response at all
HttpResponses ==
    {[kind |-> "json", status_code |-> c, body |-> b] :
        c \in StatusCodes, b \in {d \in ResponseBodies : WellTyped(d)}}
    \cup {[kind |-> k, status_code |-> c, body |-> EmptyDict] :
            k \in {"empty", "not_json"}, c \in StatusCodes}
    \cup {[kind |-> "transport_error", status_code |-> 0, body |-> EmptyDict]}

\* safe_log_data: the copy of request_data with the given fields masked
Masked(data, fields) ==
    [k \in DOMAIN data |-> IF k \in fields THEN MASKED ELSE data[k]]

\* logger.info / logger.error of json.dumps({title: fields})
LogRecord(level, title, fields) == [level |-> level, title |-> title, fields |-> fields]

\* safe_response with the access token masked only
SafeResponseAccessOnly(response_data) ==
    Masked(response_data, {"access_token"})

\* safe_response: the copy of response_data whose access_token and
\* refresh_token, when present, are masked
SafeResponse(response_data) ==
    Masked(response_data, {"access_token", "refresh_token"})

\* From client.post on: the response record, the error record and raise of
\* a status other than 200, or the return of response_data
AfterPost(name, failure, request_record, response) ==
    IF response.kind = "transport_error"
    THEN [records |-> <<request_record>>,
          out |-> [exc |-> "ConnectError", text |-> "All connection attempts failed",
                   fields |-> EmptyDict]]
    ELSE IF response.kind = "not_json"
    THEN [records |-> <<request_record>>,
          out |-> [exc |-> "JSONDecodeError", text |-> "Expecting value",
                   fields |-> EmptyDict]]
    ELSE LET response_data == IF response.kind = "empty" THEN EmptyDict ELSE response.body
             safe_response == SafeResponse(response_data)
             answered == LogRecord("info", "ZOHO API RESPONSE [" \o name \o "]",
                                   safe_response)
         IN  IF response.status_code # 200
             THEN [records |-> <<request_record, answered,
                                 LogRecord("error", failure, safe_response)>>,
                   out |-> [exc |-> "ValueError", text |-> failure,
                            fields |-> safe_response]]
             ELSE [records |-> <<request_record, answered>>,
                   out |-> [exc |-> "none", text |-> "", fields |-> response_data]]

\* ZohoIntegration.exchange_auth_code
exchange_auth_code(auth_code, response) ==
    LET request_data == [grant_type |-> "authorization_code", client_id |-> ZOHO_CLIENT_ID,
                         client_secret |-> ZOHO_CLIENT_SECRET,
                         redirect_uri |-> ZOHO_REDIRECT_URI, code |-> auth_code]
        safe_log_data == Masked(request_data, {"client_secret", "code"})
    IN  AfterPost("exchange_auth_code", "Failed to retrieve access token",
                  LogRecord("info", "ZOHO API REQUEST [exchange_auth_code]", safe_log_data),
                  response)

\* ZohoIntegration.refresh_access_token
refresh_access_token(refresh_token, response) ==
    LET request_data == [grant_type |-> "refresh_token", client_id |-> ZOHO_CLIENT_ID,
                         client_secret |-> ZOHO_CLIENT_SECRET,
                         refresh_token |-> refresh_token]
        safe_log_data == Masked(request_data, {"client_secret", "refresh_token"})
    IN  AfterPost("refresh_access_token", "Failed to refresh access token",
                  LogRecord("info", "ZOHO API REQUEST [refresh_access_token]", safe_log_data),
                  response)

NoAdapterLog == [op |-> "none"]
NoVaultLog == [op |-> "none"]

Sessions == {1, 2}
NoTxn == [pc |-> "idle", a |-> PyNone, existing_key |-> PyNone]
NoBinderLog == [op |-> "none"]

\* The process as it starts, whatever its settings
Started ==
    /\ jwk_keys = EmptyMap
    /\ last_jwk_fetch = 0
    /\ now = StartTime
    /\ log = NoLog
    /\ prevFetchFailed = FALSE
    /\ pc = [t \in Threads |-> "idle"]
    /\ newKeys = [t \in Threads |-> EmptyMap]
    /\ result = [t \in Threads |-> EmptyMap]
    /\ fetchedSets = {}
    /\ nfetch = 0
    /\ issued = <<>>
    /\ stale = {}
    /\ ikeys = {}
    /\ nextKeyId = 1
    /\ vlog = NoVaultLog
    /\ txn = [s \in Sessions |-> NoTxn]
    /\ ncreate = 0
    /\ tenants = {}
    /\ users = {}
    /\ nextUserId = 1
    /\ blog = NoBinderLog
    /\ zlog = NoAdapterLog

\* The settings are read once (get_settings is cached): the defaults of
\* config.py, no ENCRYPTION_KEY and AUTH_ENABLED true
Init == Started /\ secret = NoSecret /\ auth_enabled = TRUE

\* the provider's possible answers in a call: it is asked only when
\* get_jwk_keys runs and the cache is not fresh
NoResponse == [kind |-> "ConnectionError", keys |-> <<>>]
Asked(called) ==
    IF called /\ ~CacheFresh(jwk_keys, last_jwk_fetch, now) THEN Responses ELSE {NoResponse}

\* the key entries of the response a call received, none if it sent no request
Sent(r, resp) ==
    IF r.fetch \in {"none", "notcalled"} THEN {}
    ELSE {resp.keys[i] : i \in 1..Len(resp.keys)}

\* a direct call of get_jwk_keys()
GetJwkKeys ==
    /\ log.op = "none"
    /\ \E resp \in Asked(TRUE) :
        LET r == get_jwk_keys(jwk_keys, last_jwk_fetch, now, resp)
        IN  /\ jwk_keys' = r.keys
            /\ last_jwk_fetch' = r.last
            /\ log' = [NoLog EXCEPT !.op = "get_jwk_keys", !.at = now,
                                    !.prevKeys = jwk_keys, !.prevFetch = last_jwk_fetch,
                                    !.jwk = r, !.entries = Sent(r, resp),
                                    !.afterFailed = prevFetchFailed]
            /\ prevFetchFailed' = (r.fetch \notin {"none", "ok"})
    /\ UNCHANGED <<now, thrVars, ordVars, dbVars>>

\* a call of validate_token(token)
ValidateToken ==
    /\ log.op = "none"
    /\ \E token \in Tokens :
       \E resp \in Asked(CallsGetJwkKeys(token)) :
        LET v == validate_token(token, jwk_keys, last_jwk_fetch, now, resp)
        IN  /\ jwk_keys' = v.jwk.keys
            /\ last_jwk_fetch' = v.jwk.last
            /\ log' = [op |-> "validate_token", token |-> token, at |-> now,
                       prevKeys |-> jwk_keys, prevFetch |-> last_jwk_fetch,
                       jwk |-> v.jwk, out |-> v.out, entries |-> Sent(v.jwk, resp),
                       afterFailed |-> prevFetchFailed]
            /\ prevFetchFailed' = (v.jwk.fetch \notin {"none", "ok", "notcalled"})
    /\ UNCHANGED <<now, thrVars, ordVars, dbVars>>

\* the caller has taken the result; the next call may start
Return ==
    /\ log.op # "none"
    /\ log' = NoLog
    /\ UNCHANGED <<cacheVars, prevFetchFailed, thrVars, ordVars, dbVars>>

\* time passes between calls
Tick ==
    /\ log.op = "none"
    /\ \E d \in TickSteps :
        /\ now + d - StartTime <= MaxElapsed
        /\ now' = now + d
    /\ UNCHANGED <<jwk_keys, last_jwk_fetch, seqVars, thrVars, ordVars, dbVars>>

Next == GetJwkKeys \/ ValidateToken \/ Return \/ Tick

Spec == Init /\ [][Next]_vars

(***************************************************************************)
(* Concurrent specification: get_jwk_keys, one step per access of a global *)
(***************************************************************************)
\* line 46, left operand: the call starts and reads jwk_keys
T_ReadKeys(t) ==
    /\ pc[t] = "idle"
    /\ pc' = [pc EXCEPT ![t] = IF jwk_keys # EmptyMap THEN "age" ELSE "fetch"]
    /\ UNCHANGED <<cacheVars, seqVars, newKeys, result, fetchedSets, nfetch, ordVars, dbVars>>

\* line 46, right operand: reads the clock and last_jwk_fetch
T_ReadAge(t) ==
    /\ pc[t] = "age"
    /\ pc' = [pc EXCEPT ![t] = IF now - last_jwk_fetch < JWK_CACHE_DURATION
                               THEN "ret_cached" ELSE "fetch"]
    /\ UNCHANGED <<cacheVars, seqVars, newKeys, result, fetchedSets, nfetch, ordVars, dbVars>>

\* line 48: return jwk_keys reads the global again
T_ReturnCached(t) ==
    /\ pc[t] = "ret_cached"
    /\ result' = [result EXCEPT ![t] = jwk_keys]
    /\ pc' = [pc EXCEPT ![t] = "done"]
    /\ UNCHANGED <<cacheVars, seqVars, newKeys, fetchedSets, nfetch, ordVars, dbVars>>

\* lines 55-60: the request, and the new map built in the thread; a failure
\* goes to an except clause and the call returns {}
T_Fetch(t) ==
    /\ pc[t] = "fetch"
    /\ nfetch < MaxFetches
    /\ nfetch' = nfetch + 1
    /\ \E resp \in Responses :
        IF FetchKind(resp) = "ok"
        THEN /\ newKeys' = [newKeys EXCEPT ![t] = KeyMap(resp.keys)]
             /\ fetchedSets' = fetchedSets \cup {{resp.keys[i] : i \in 1..Len(resp.keys)}}
             /\ issued' = Append(issued, t)
             /\ pc' = [pc EXCEPT ![t] = "store"]
             /\ UNCHANGED result
        ELSE /\ result' = [result EXCEPT ![t] = FetchExcept(FetchKind(resp)).ret]
             /\ pc' = [pc EXCEPT ![t] = "done"]
             /\ UNCHANGED <<newKeys, fetchedSets, issued>>
    /\ UNCHANGED <<cacheVars, seqVars, stale, dbVars>>

\* T_StoreKeys filling the shared dict in place, one key per step
\* the threads whose request in flight was issued before that of thread t
IssuedBefore(t) ==
    {issued[i] : i \in {i \in 1..Len(issued) : \E j \in i+1..Len(issued) : issued[j] = t}}

T_StoreKeysInPlace(t) ==
    /\ pc[t] = "store"
    /\ LET new == newKeys[t]
           todo == {k \in DOMAIN new : k \notin DOMAIN jwk_keys \/ jwk_keys[k] # new[k]}
       IN  IF todo # {}
           THEN /\ \E k \in todo :
                    jwk_keys' = [x \in DOMAIN jwk_keys \cup {k} |->
                                    IF x = k THEN new[k] ELSE jwk_keys[x]]
                /\ UNCHANGED pc
                /\ UNCHANGED newKeys
                /\ UNCHANGED ordVars
           ELSE /\ pc' = [pc EXCEPT ![t] = "stamp"]
                /\ newKeys' = [newKeys EXCEPT ![t] = EmptyMap]
                /\ stale' = IssuedBefore(t)
                /\ issued' = SelectSeq(issued, LAMBDA u : u # t)
                /\ UNCHANGED jwk_keys
    /\ UNCHANGED <<last_jwk_fetch, now, seqVars, result, fetchedSets, nfetch, dbVars>>

\* line 60: the global is rebound to the finished map
T_StoreKeys(t) ==
    /\ pc[t] = "store"
    /\ jwk_keys' = StoreKeys(jwk_keys, newKeys[t])
    /\ newKeys' = [newKeys EXCEPT ![t] = EmptyMap]
    /\ stale' = IssuedBefore(t)
    /\ issued' = SelectSeq(issued, LAMBDA u : u # t)
    /\ pc' = [pc EXCEPT ![t] = "stamp"]
    /\ UNCHANGED <<last_jwk_fetch, now, seqVars, result, fetchedSets, nfetch, dbVars>>

\* line 61
T_Stamp(t) ==
    /\ pc[t] = "stamp"
    /\ last_jwk_fetch' = now
    /\ pc' = [pc EXCEPT ![t] = "ret"]
    /\ UNCHANGED <<jwk_keys, now, seqVars, newKeys, result, fetchedSets, nfetch, ordVars, dbVars>>

\* line 64: return jwk_keys reads the global again
T_ReturnFetched(t) ==
    /\ pc[t] = "ret"
    /\ result' = [result EXCEPT ![t] = jwk_keys]
    /\ pc' = [pc EXCEPT ![t] = "done"]
    /\ UNCHANGED <<cacheVars, seqVars, newKeys, fetchedSets, nfetch, ordVars, dbVars>>

\* the caller has the returned map; the thread serves the next call
T_Done(t) ==
    /\ pc[t] = "done"
    /\ pc' = [pc EXCEPT ![t] = "idle"]
    /\ result' = [result EXCEPT ![t] = EmptyMap]
    /\ UNCHANGED <<cacheVars, seqVars, newKeys, fetchedSets, nfetch, ordVars, dbVars>>

ConcNext ==
    \/ \E t \in Threads : T_ReadKeys(t)
    \/ \E t \in Threads : T_ReadAge(t)
    \/ \E t \in Threads : T_ReturnCached(t)
    \/ \E t \in Threads : T_Fetch(t)
    \/ \E t \in Threads : T_StoreKeys(t)
    \/ \E t \in Threads : T_Stamp(t)
    \/ \E t \in Threads : T_ReturnFetched(t)
    \/ \E t \in Threads : T_Done(t)
    \/ Tick

ConcSpec == Init /\ [][ConcNext]_vars

\* ---------------------------------------------------------------------
\* The cipher and the vault, one call at a time

\* get_settings() with any ENCRYPTION_KEY
VaultInit == Started /\ secret \in Secrets /\ auth_enabled = TRUE

\* AuthService(db)
AuthServiceInit ==
    /\ vlog.op = "none"
    /\ vlog' = [op |-> "AuthService", key |-> secret, out |-> AuthService_init(secret)]
    /\ UNCHANGED <<ikeys, nextKeyId, secret, sessVars, adapterVars, binderVars, authVars>>

\* EncryptionService(key), key defaulting to settings.ENCRYPTION_KEY
EncryptionServiceInit ==
    /\ vlog.op = "none"
    /\ \E key \in {secret, AFernetKey} :
        vlog' = [op |-> "EncryptionService", key |-> key, out |-> EncryptionService_init(key)]
    /\ UNCHANGED <<ikeys, nextKeyId, secret, sessVars, adapterVars, binderVars, authVars>>

Plaintexts == {Str("A1"), Str("R1"), Str("")}

\* _encrypt_token(x), then _decrypt_token of what it gave: each call builds
\* its cipher anew from the configured secret
EncryptThenDecrypt ==
    /\ vlog.op = "none"
    /\ \E x \in Plaintexts :
        LET encrypted == _encrypt_token(secret, x) IN
        vlog' = [op |-> "AuthService.round_trip", key |-> secret, x |-> x,
                 encrypted |-> encrypted,
                 out |-> IF encrypted.exc # "none" THEN encrypted
                         ELSE _decrypt_token(secret, encrypted.value)]
    /\ UNCHANGED <<ikeys, nextKeyId, secret, sessVars, adapterVars, binderVars, authVars>>

\* EncryptionService(key).encrypt(x), then .decrypt of what it gave by a
\* second EncryptionService(key)
ServiceEncryptThenDecrypt ==
    /\ vlog.op = "none"
    /\ \E key \in {secret, AFernetKey}, x \in Plaintexts :
        LET one == EncryptionService_init(key)
            two == EncryptionService_init(key)
        IN  vlog' = [op |-> "EncryptionService.round_trip", key |-> key, x |-> x,
                     out |-> IF one.exc # "none" THEN one
                             ELSE EncryptionService_decrypt(two.value,
                                      EncryptionService_encrypt(one.value, x).value)]
    /\ UNCHANGED <<ikeys, nextKeyId, secret, sessVars, adapterVars, binderVars, authVars>>

StoreIntegrationTokens ==
    /\ vlog.op = "none"
    /\ \E a \in StoreCalls :
        LET r == store_integration_tokens(ikeys, nextKeyId, secret, a) IN
        /\ ikeys' = r.rows
        /\ nextKeyId' = r.nextId
        /\ vlog' = [op |-> "store_integration_tokens", a |-> a, before |-> ikeys,
                    out |-> r.out]
    /\ UNCHANGED <<secret, sessVars, adapterVars, binderVars, authVars>>

\* IntegrationKeyRepository.create, lookup to commit
IntegrationRepoCreate ==
    /\ vlog.op = "none"
    /\ \E a \in CreateCalls :
       \E existing_key \in First(get_by_tenant_and_type(ikeys, a.tenant_id, a.integration_type)) :
        LET r == integration_repo_create(ikeys, nextKeyId, existing_key, a) IN
        /\ ikeys' = r.rows
        /\ nextKeyId' = r.nextId
        /\ vlog' = [op |-> "IntegrationKeyRepository.create", a |-> a, before |-> ikeys,
                    out |-> r.ret]
    /\ UNCHANGED <<secret, sessVars, adapterVars, binderVars, authVars>>

NoCall == [tenant_id |-> "", integration_type |-> ""]

\* get_integration_tokens, as the next call or right after a store for the
\* same tenant and integration type (which it then remembers as "after")
GetIntegrationTokens ==
    /\ vlog.op \in {"none", "store_integration_tokens"}
    /\ \E tenant_id \in TenantIds, integration_type \in IntegrationTypes :
       \E integration_key \in First(get_by_tenant_and_type(ikeys, tenant_id, integration_type)) :
        /\ vlog.op = "store_integration_tokens" =>
               tenant_id = vlog.a.tenant_id /\ integration_type = vlog.a.integration_type
        /\ vlog' = [op |-> "get_integration_tokens", tenant_id |-> tenant_id,
                    integration_type |-> integration_type, at |-> now,
                    found |-> integration_key,
                    after |-> IF vlog.op = "store_integration_tokens" THEN vlog.a ELSE NoCall,
                    out |-> get_integration_tokens(integration_key, secret, now)]
    /\ UNCHANGED <<ikeys, nextKeyId, secret, sessVars, adapterVars, binderVars, authVars>>

VaultReturn ==
    /\ vlog.op # "none"
    /\ vlog' = NoVaultLog
    /\ UNCHANGED <<ikeys, nextKeyId, secret, sessVars, adapterVars, binderVars, authVars>>

VaultNext ==
    \/ AuthServiceInit
    \/ EncryptionServiceInit
    \/ EncryptThenDecrypt
    \/ ServiceEncryptThenDecrypt
    \/ StoreIntegrationTokens
    \/ IntegrationRepoCreate
    \/ GetIntegrationTokens
    \/ VaultReturn

VaultSpec == VaultInit /\ [][VaultNext]_vars

\* ---------------------------------------------------------------------
\* IntegrationKeyRepository.create in concurrent sessions: each session sees
\* the committed rows at its lookup and commits on its own

MaxCreates == 3
ConcCreateCalls ==
    CreateCallsOver(TokenPairs, {"short-secret"}, {StartTime + 1},
                    {[org_id |-> PyNone, tenant_id_external |-> PyNone]})

\* line 30: existing_key = self.get_by_tenant_and_type(...)
S_Lookup(s) ==
    /\ txn[s].pc = "idle"
    /\ ncreate < MaxCreates
    /\ \E a \in ConcCreateCalls :
       \E existing_key \in First(get_by_tenant_and_type(ikeys, a.tenant_id, a.integration_type)) :
        txn' = [txn EXCEPT ![s] = [pc |-> "commit", a |-> a, existing_key |-> existing_key]]
    /\ ncreate' = ncreate + 1
    /\ UNCHANGED <<vaultVars, binderVars, adapterVars, authVars>>

\* lines 33-44 or 47-60: the update or the insert, and its commit
S_Commit(s) ==
    /\ txn[s].pc = "commit"
    /\ LET r == integration_repo_create(ikeys, nextKeyId, txn[s].existing_key, txn[s].a) IN
        /\ ikeys' = r.rows
        /\ nextKeyId' = r.nextId
    /\ txn' = [txn EXCEPT ![s] = NoTxn]
    /\ UNCHANGED <<secret, vlog, ncreate, binderVars, adapterVars, authVars>>

ConcVaultNext == \E s \in Sessions : S_Lookup(s) \/ S_Commit(s)

ConcVaultSpec == Init /\ [][ConcVaultNext]_vars

\* ---------------------------------------------------------------------
\* The binder, one call at a time

\* get_settings() with either AUTH_ENABLED
BinderInit == Started /\ secret = NoSecret /\ auth_enabled \in BOOLEAN

CreateTenantWithAdmin ==
    /\ blog.op = "none"
    /\ \E tenant_data \in TenantDatas, user_data \in UserDatas, cognito_id \in CognitoIds :
        LET r == create_tenant_with_admin(tenants, users, nextUserId,
                                          tenant_data, user_data, cognito_id) IN
        /\ tenants' = r.tenants
        /\ users' = r.users
        /\ nextUserId' = r.nextId
        /\ blog' = [op |-> "create_tenant_with_admin", tenant_data |-> tenant_data,
                    user_data |-> user_data, cognito_id |-> cognito_id,
                    before |-> tenants, usersBefore |-> users, out |-> r.out]
    /\ UNCHANGED <<auth_enabled, vaultVars, sessVars, adapterVars, authVars>>

AddUserToTenant ==
    /\ blog.op = "none"
    /\ \E tenant_id \in TenantIds, user_data \in UserDatas, cognito_id \in CognitoIds :
        LET r == add_user_to_tenant(tenants, users, nextUserId,
                                    tenant_id, user_data, cognito_id) IN
        /\ users' = r.users
        /\ nextUserId' = r.nextId
        /\ blog' = [op |-> "add_user_to_tenant", tenant_id |-> tenant_id,
                    user_data |-> user_data, cognito_id |-> cognito_id,
                    before |-> tenants, usersBefore |-> users, out |-> r.out]
    /\ UNCHANGED <<tenants, auth_enabled, vaultVars, sessVars, adapterVars, authVars>>

UpdateUserInfo ==
    /\ blog.op = "none"
    /\ \E current_user \in CurrentUsers(auth_enabled, users) :
       \E user_id \in UserIds, body \in UpdateBodies :
        LET r == update_user_info(current_user, users, user_id, body) IN
        /\ users' = r.users
        /\ blog' = [op |-> "update_user_info", current_user |-> current_user,
                    user_id |-> user_id, body |-> body,
                    usersBefore |-> users, out |-> r.out]
    /\ UNCHANGED <<tenants, nextUserId, auth_enabled, vaultVars, sessVars, adapterVars, authVars>>

UpdateUserStatus ==
    /\ blog.op = "none"
    /\ \E current_user \in CurrentUsers(auth_enabled, users) :
       \E cognito_id \in Subjects, status_update \in StatusUpdates :
        LET r == update_user_status(current_user, users, cognito_id, status_update) IN
        /\ users' = r.users
        /\ blog' = [op |-> "update_user_status", current_user |-> current_user,
                    cognito_id |-> cognito_id, status_update |-> status_update,
                    usersBefore |-> users, out |-> r.out]
    /\ UNCHANGED <<tenants, nextUserId, auth_enabled, vaultVars, sessVars, adapterVars, authVars>>

\* the service method, called once the identity provider has confirmed the
\* user
UpdateUserStatusByCognitoId ==
    /\ blog.op = "none"
    /\ \E cognito_id \in Subjects, status_update \in StatusUpdates :
        LET r == update_user_status_by_cognito_id(users, cognito_id, status_update) IN
        /\ users' = r.users
        /\ blog' = [op |-> "update_user_status_by_cognito_id",
                    cognito_id |-> cognito_id, status_update |-> status_update,
                    usersBefore |-> users, out |-> r.out]
    /\ UNCHANGED <<tenants, nextUserId, auth_enabled, vaultVars, sessVars, adapterVars, authVars>>

UpdateByCognitoId ==
    /\ blog.op = "none"
    /\ \E cognito_id \in Subjects, body \in UpdateBodies :
        LET r == update_by_cognito_id(users, cognito_id, UserUpdate(body)) IN
        /\ users' = r.rows
        /\ blog' = [op |-> "update_by_cognito_id", cognito_id |-> cognito_id,
                    body |-> body, usersBefore |-> users, out |-> r.ret]
    /\ UNCHANGED <<tenants, nextUserId, auth_enabled, vaultVars, sessVars, adapterVars, authVars>>

GetCurrentUser ==
    /\ blog.op = "none"
    /\ \E credentials \in BearerTokens \cup {NoCredentials} :
       \E got \in get_all_limit_1(users) :
       \E resp \in Asked(auth_enabled /\ credentials # NoCredentials
                         /\ CallsGetJwkKeys(credentials)) :
        LET r == get_current_user(auth_enabled, credentials, got, users,
                                  jwk_keys, last_jwk_fetch, now, resp) IN
        /\ jwk_keys' = r.jwk.keys
        /\ last_jwk_fetch' = r.jwk.last
        /\ blog' = [op |-> "get_current_user", credentials |-> credentials,
                    rows |-> users, out |-> r.out]
    /\ UNCHANGED <<now, seqVars, thrVars, ordVars, vaultVars, sessVars, adapterVars,
                   tenants, users, nextUserId, auth_enabled>>

BinderReturn ==
    /\ blog.op # "none"
    /\ blog' = NoBinderLog
    /\ UNCHANGED <<tenants, users, nextUserId, auth_enabled, vaultVars, sessVars, adapterVars, authVars>>

BinderNext ==
    \/ CreateTenantWithAdmin
    \/ UpdateUserStatusByCognitoId
    \/ GetCurrentUser
    \/ BinderReturn

BinderSpec == BinderInit /\ [][BinderNext]_vars

CreateCredential ==
    /\ blog.op = "none"
    /\ \E a \in ConcCreateCalls :
       \E existing_key \in First(get_by_tenant_and_type(ikeys, a.tenant_id, a.integration_type)) :
        LET r == integration_repo_create_fk(tenants, ikeys, nextKeyId, existing_key, a) IN
        /\ ikeys' = r.rows
        /\ nextKeyId' = r.nextId
        /\ blog' = [op |-> "IntegrationKeyRepository.create", a |-> a,
                    before |-> tenants, usersBefore |-> users, keysBefore |-> ikeys,
                    out |-> r.exc]
    /\ UNCHANGED <<secret, vlog, sessVars, adapterVars, tenants, users, nextUserId, auth_enabled, authVars>>

TenantDelete ==
    /\ blog.op = "none"
    /\ \E tenant_id \in TenantIds :
        LET r == tenant_repo_delete(tenants, users, ikeys, tenant_id) IN
        /\ tenants' = r.tenants
        /\ blog' = [op |-> "TenantRepository.delete", tenant_id |-> tenant_id,
                    before |-> tenants, usersBefore |-> users, keysBefore |-> ikeys,
                    out |-> [exc |-> r.exc, ret |-> r.ret]]
    /\ UNCHANGED <<users, nextUserId, auth_enabled, vaultVars, sessVars, adapterVars, authVars>>

\* ---------------------------------------------------------------------
\* The Zoho adapter, one call at a time

ExchangeAuthCode ==
    /\ zlog.op = "none"
    /\ \E auth_code \in AuthCodes, response \in HttpResponses :
        LET r == exchange_auth_code(auth_code, response) IN
        zlog' = [op |-> "exchange_auth_code", arg |-> auth_code, response |-> response,
                 records |-> r.records, out |-> r.out]
    /\ UNCHANGED <<vaultVars, sessVars, binderVars, authVars>>

RefreshAccessToken ==
    /\ zlog.op = "none"
    /\ \E refresh_token \in RefreshTokens, response \in HttpResponses :
        LET r == refresh_access_token(refresh_token, response) IN
        zlog' = [op |-> "refresh_access_token", arg |-> refresh_token,
                 response |-> response, records |-> r.records, out |-> r.out]
    /\ UNCHANGED <<vaultVars, sessVars, binderVars, authVars>>

AdapterReturn ==
    /\ zlog.op # "none"
    /\ zlog' = NoAdapterLog
    /\ UNCHANGED <<vaultVars, sessVars, binderVars, authVars>>

AdapterNext == ExchangeAuthCode \/ RefreshAccessToken \/ AdapterReturn

AdapterSpec == Init /\ [][AdapterNext]_vars

\* Tenants, their users and their integration keys, one call at a time
OwnershipNext ==
    \/ CreateTenantWithAdmin
    \/ AddUserToTenant
    \/ CreateCredential
    \/ TenantDelete
    \/ BinderReturn

OwnershipSpec == BinderInit /\ [][OwnershipNext]_vars

\* The calls that provision and update users, one at a time
TenancyNext ==
    \/ CreateTenantWithAdmin
    \/ AddUserToTenant
    \/ UpdateUserInfo
    \/ UpdateUserStatus
    \/ UpdateUserStatusByCognitoId
    \/ UpdateByCognitoId
    \/ BinderReturn

TenancySpec == BinderInit /\ [][TenancyNext]_vars

(***************************************************************************)
(* What a finished call shows                                              *)
(***************************************************************************)
\* the rejections of the verifier
UnknownKey == HTTPException(401, "Invalid token signature")
KeyUnavailable == HTTPException(503, "Authentication service unavailable")
MalformedToken == HTTPException(401, "Invalid token format")

Validated == log.op = "validate_token"
\* the finished call ran get_jwk_keys (itself, or inside validate_token)
KeysCalled == log.op # "none" /\ log.jwk.fetch # "notcalled"
FetchFailed == KeysCalled /\ log.jwk.fetch \notin {"none", "ok"}
\* a snapshot was stored by a successful fetch less than the TTL before the call
YoungSnapshot == log.prevFetch # 0 /\ log.at - log.prevFetch < JWK_CACHE_DURATION
\* the token passes every check of jwt.decode against the key map m at time t
ValidFor(token, m, t) ==
    /\ token.form = "jwt"
    /\ token.kid \in DOMAIN m
    /\ token.alg = "RS256"
    /\ token.signer = m[token.kid]
    /\ token.aud = AWS_COGNITO_CLIENT_ID
    /\ token.exp > t
Succeeded == log.out.exc = "none" /\ log.out.payload.sub = log.token.sub

\* C1: a token whose key-id is absent from the non-empty key set that
\* get_jwk_keys returned is rejected with 401 'Invalid token signature'.
C1_UnknownKeyRejected ==
    (Validated /\ KeysCalled /\ log.jwk.ret # EmptyMap
        /\ log.token.kid \notin DOMAIN log.jwk.ret)
    => log.out = UnknownKey

\* C2: when get_jwk_keys yields the empty mapping, a token with a key-id is
\* rejected with 503 'Authentication service unavailable'.
C2_KeyUnavailableOnEmpty ==
    (Validated /\ KeysCalled /\ log.jwk.ret = EmptyMap)
    => log.out = KeyUnavailable

\* C3: a token whose header does not decode, or decodes without a key-id, is
\* rejected with 401 'Invalid token format' and get_jwk_keys is not called.
C3_MalformedRejected ==
    (Validated /\ (log.token.form = "garbled"
                    \/ (log.token.form = "jwt" /\ log.token.kid = NoKid)))
    => (log.out = MalformedToken /\ ~KeysCalled)

\* C4: a token whose key-id is in the current key set, validly signed, for
\* the configured audience and not expired is accepted, and the returned
\* claims carry the token's subject.
C4_ValidTokenAccepted ==
    (Validated /\ KeysCalled /\ ValidFor(log.token, log.jwk.ret, log.at))
    => Succeeded

C4_Witness ==
    /\ Validated /\ KeysCalled
    /\ ValidFor(log.token, log.jwk.ret, log.at)
    /\ log.token.sub = "sub-xyz"
    /\ log.out.payload.sub = "sub-xyz"

\* C5: from an empty cache with the provider unreachable validate_token fails
\* with KeyUnavailable; the failed fetch is not cached, so the next call
\* fetches, and succeeds for a valid token whose key-id is in the fetched set.
C5_OutageThenRecovery ==
    /\ (Validated /\ log.prevKeys = EmptyMap /\ FetchFailed)
        => log.out = KeyUnavailable
    /\ (Validated /\ KeysCalled /\ log.afterFailed /\ log.prevKeys = EmptyMap)
        => log.jwk.fetch # "none"
    /\ (Validated /\ log.afterFailed /\ log.prevKeys = EmptyMap /\ log.jwk.fetch = "ok"
            /\ ValidFor(log.token, log.jwk.ret, log.at))
        => Succeeded

\* C6 as stated: every snapshot stored by a successful fetch less than an hour
\* ago, one of zero keys included, is returned unchanged without a fetch.
C6_YoungSnapshotServed ==
    (KeysCalled /\ YoungSnapshot)
    => /\ log.jwk.fetch = "none"
       /\ log.jwk.ret = log.prevKeys
       /\ jwk_keys = log.prevKeys
       /\ last_jwk_fetch = log.prevFetch

\* C6 amended: a snapshot of at least one key stored less than an hour ago is
\* returned unchanged without a fetch; a snapshot of zero keys is not served
\* from the cache, the call sends a request.
C6_NonEmptyYoungSnapshotServed ==
    /\ (KeysCalled /\ YoungSnapshot /\ log.prevKeys # EmptyMap)
        => /\ log.jwk.fetch = "none"
           /\ log.jwk.ret = log.prevKeys
           /\ jwk_keys = log.prevKeys
           /\ last_jwk_fetch = log.prevFetch
    /\ (KeysCalled /\ log.prevKeys = EmptyMap) => log.jwk.fetch # "none"

C6_Witness ==
    /\ KeysCalled /\ YoungSnapshot
    /\ log.prevKeys # EmptyMap
    /\ log.at > log.prevFetch
    /\ log.jwk.fetch = "none"
    /\ log.jwk.ret = log.prevKeys

\* the map m holds exactly the keys of the entry set es
ExactlyKeysOf(m, es) ==
    /\ DOMAIN m = {e.kid : e \in es}
    /\ \A k \in DOMAIN m : [kid |-> k, mat |-> m[k]] \in es

\* C7: with no snapshot or one at least an hour old, a successful fetch
\* replaces the cached map by exactly the fetched keys and sets the freshness
\* timestamp to the time of the fetch.
C7_FetchReplacesCache ==
    (KeysCalled /\ (log.prevKeys = EmptyMap \/ log.at - log.prevFetch >= JWK_CACHE_DURATION)
        /\ log.jwk.fetch = "ok")
    => /\ ExactlyKeysOf(jwk_keys, log.entries)
       /\ log.jwk.ret = jwk_keys
       /\ last_jwk_fetch = log.at

C7_Witness ==
    /\ KeysCalled /\ log.jwk.fetch = "ok"
    /\ log.prevKeys # EmptyMap
    /\ log.at - log.prevFetch >= JWK_CACHE_DURATION
    /\ \E k \in DOMAIN log.prevKeys : k \notin DOMAIN jwk_keys
    /\ jwk_keys # EmptyMap
    /\ last_jwk_fetch = log.at

\* C8: past the TTL, a failed fetch makes get_jwk_keys return the empty
\* mapping although a stale snapshot is held, and a verification made then
\* returns no claims.
C8_StaleNeverServed ==
    (KeysCalled /\ FetchFailed)
    => /\ log.jwk.ret = EmptyMap
       /\ Validated => log.out.exc # "none"

C8_Witness ==
    /\ Validated /\ FetchFailed
    /\ log.prevKeys # EmptyMap
    /\ log.at - log.prevFetch >= JWK_CACHE_DURATION
    /\ ValidFor(log.token, log.prevKeys, log.at)
    /\ log.jwk.ret = EmptyMap
    /\ log.out.exc # "none"

\* C9: get_jwk_keys raises for no fetch outcome; a failed call returns a
\* mapping and leaves the cached keys and the freshness timestamp as they were.
C9_NeverRaises ==
    /\ KeysCalled => log.jwk.raised = "none"
    /\ FetchFailed
        => /\ log.jwk.ret = EmptyMap
           /\ jwk_keys = log.prevKeys
           /\ last_jwk_fetch = log.prevFetch

C9_Witness ==
    /\ log.op = "get_jwk_keys"
    /\ log.jwk.fetch = "KeyError"
    /\ \E e \in log.entries : e.kid # NoKid
    /\ log.prevKeys # EmptyMap
    /\ log.jwk.raised = "none"
    /\ jwk_keys = log.prevKeys

\* the map m is empty or the complete key set of one successful response
OneFetch(m) == m = EmptyMap \/ \E es \in fetchedSets : ExactlyKeysOf(m, es)

\* C10: under any interleaving of get_jwk_keys calls, the shared key map and
\* every map a call returns is empty or the complete key set of one single
\* fetch response.
C10_WholeSnapshots ==
    /\ OneFetch(jwk_keys)
    /\ \A t \in Threads : pc[t] = "done" => OneFetch(result[t])

\* two refreshes ran together, and the one that finished returned the keys
\* the other had just stored
C10_Witness ==
    /\ Cardinality(fetchedSets) >= 2
    /\ \E t, u \in Threads :
        /\ t # u
        /\ pc[t] = "done" /\ result[t] # EmptyMap
        /\ pc[u] = "stamp" /\ jwk_keys = result[t]
        /\ \E es \in fetchedSets : ~ExactlyKeysOf(result[t], es)

\* C11: the cached snapshot is never replaced by the result of a fetch that
\* was issued before the fetch whose result is cached.
C11_MonotonicRefresh ==
    [][\A t \in Threads : (pc[t] = "store" /\ pc'[t] = "stamp") => t \notin stale]_vars

\* C12: with AUTH_ENABLED false, get_current_user returns the fixed
\* development user to every caller, whatever the request carries and whatever
\* the users table holds.
C12_FixedDevUser ==
    (blog.op = "get_current_user" /\ ~auth_enabled) => blog.out = Returned(DevUser)

\* A store call that gives two non-empty string tokens
WellFormedStore(a) ==
    /\ a.token_data.access_token.type = "str" /\ a.token_data.access_token.s # ""
    /\ a.token_data.refresh_token.type = "str" /\ a.token_data.refresh_token.s # ""

\* Row r carries what store call a gave, the tokens encrypted under key
RowHolds(r, a, key) ==
    /\ r.access_token = FernetEncrypt(_create_cipher(key).value, a.token_data.access_token.s)
    /\ r.refresh_token = FernetEncrypt(_create_cipher(key).value, a.token_data.refresh_token.s)
    /\ r.expires_at = a.expires_at
    /\ r.org_id = a.org_id
    /\ r.tenant_id_external = a.tenant_id_external
    /\ r.additional_data = (IF DOMAIN a.token_data.extra # {}
                            THEN JsonDumps(a.token_data.extra) ELSE PyNone)

\* C13: after a store_integration_tokens call (two tokens given, a secret
\* configured) there is at most one row per (tenant, integration type), the
\* row of the call's pair carries the call's access token, refresh token,
\* expiry, org id, external tenant id and additional data, and a row the pair
\* had before keeps its id.
C13_StoreUpserts ==
    (vlog.op = "store_integration_tokens" /\ secret # NoSecret /\ WellFormedStore(vlog.a)) =>
        LET stored == get_by_tenant_and_type(ikeys, vlog.a.tenant_id, vlog.a.integration_type)
            old == get_by_tenant_and_type(vlog.before, vlog.a.tenant_id, vlog.a.integration_type)
        IN  /\ \A t \in TenantIds, i \in IntegrationTypes :
                   Cardinality(get_by_tenant_and_type(ikeys, t, i)) <= 1
            /\ \E r \in stored : RowHolds(r, vlog.a, secret)
            /\ \A o \in old : \A r \in stored : r.id = o.id

\* C14: however two sessions' credential writes for one (tenant, integration
\* type) interleave between lookup and commit, the pair has at most one row
\* and that row's access and refresh token come from the same call.
C14_ConcurrentStoresOneRow ==
    \A t \in TenantIds, i \in IntegrationTypes :
        /\ Cardinality(get_by_tenant_and_type(ikeys, t, i)) <= 1
        /\ \A r \in get_by_tenant_and_type(ikeys, t, i) :
               <<r.access_token.pt, r.refresh_token.pt>> \in TokenPairs

\* C15: a retrieve that follows store(tenant, type, access A, refresh R,
\* expires_at <= now) returns the Expired result, which carries refresh token
\* R and no access token.
C15_ExpiredCarriesRefresh ==
    (/\ vlog.op = "get_integration_tokens"
     /\ vlog.after # NoCall
     /\ secret # NoSecret
     /\ WellFormedStore(vlog.after)
     /\ vlog.at >= vlog.after.expires_at) =>
        /\ DOMAIN vlog.out = {"error", "refresh_token", "expires_at"}
        /\ vlog.out.error = "Token expired"
        /\ vlog.out.refresh_token = vlog.after.token_data.refresh_token

\* Encrypting one of the two tokens of store call a fails under key
EncryptionFails(key, a) ==
    \/ _encrypt_token(key, a.token_data.access_token).exc # "none"
    \/ _encrypt_token(key, a.token_data.refresh_token).exc # "none"

\* C16: a store call whose encryption of either token fails leaves the table
\* as it was, and every row a store call writes carries both tokens of that
\* call, encrypted: no row has one token of the call and one older token.
C16_NoWriteUnlessBothEncrypted ==
    vlog.op = "store_integration_tokens" =>
        /\ EncryptionFails(secret, vlog.a) => ikeys = vlog.before
        /\ \A r \in ikeys \ vlog.before :
               /\ ~EncryptionFails(secret, vlog.a)
               /\ r.access_token = _encrypt_token(secret, vlog.a.token_data.access_token).value
               /\ r.refresh_token = _encrypt_token(secret, vlog.a.token_data.refresh_token).value

\* a store call that encrypted its access token, failed on its refresh token,
\* and left the row its pair already had untouched
C16_Witness ==
    /\ vlog.op = "store_integration_tokens"
    /\ _encrypt_token(secret, vlog.a.token_data.access_token).exc = "none"
    /\ _encrypt_token(secret, vlog.a.token_data.refresh_token).exc # "none"
    /\ get_by_tenant_and_type(vlog.before, vlog.a.tenant_id, vlog.a.integration_type) # {}
    /\ ikeys = vlog.before

\* C17: with a secret configured, decrypting what encrypt gave for a
\* non-empty string x gives x back, each call building its cipher anew; the
\* key is the secret itself when it is 32 bytes long and its SHA-256 digest
\* otherwise.
C17_RoundTrip ==
    /\ (vlog.op = "AuthService.round_trip" /\ vlog.key # NoSecret /\ vlog.x.s # "") =>
           /\ vlog.out = Value(vlog.x)
           /\ vlog.encrypted.value.key =
                  [from |-> IF Len(vlog.key) = 32 THEN "raw" ELSE "sha256", of |-> vlog.key]
    /\ (vlog.op = "EncryptionService.round_trip" /\ Len(vlog.key) = 44 /\ vlog.x.s # "") =>
           vlog.out = Value(vlog.x)

\* a round trip under a secret that is not 32 bytes long
C17_Witness ==
    /\ vlog.op = "AuthService.round_trip"
    /\ vlog.key # NoSecret /\ Len(vlog.key) # 32
    /\ vlog.x.s # ""
    /\ vlog.out = Value(vlog.x)

\* Row r was encrypted under another key than the one the secret gives
ForeignRow(r, key) ==
    /\ r.access_token.key # _create_cipher(key).value
    /\ r.refresh_token.key # _create_cipher(key).value

\* C18: retrieving a row whose tokens were encrypted under another secret
\* than the configured one gives an error result: no token value, and not
\* None.
C18_WrongSecretIsAnError ==
    (/\ vlog.op = "get_integration_tokens"
     /\ vlog.found # PyNone
     /\ secret # NoSecret
     /\ ForeignRow(vlog.found, secret)) =>
        /\ vlog.out # PyNone
        /\ DOMAIN vlog.out = {"error"}

\* a retrieve of a foreign row that has not expired
C18_Witness ==
    /\ vlog.op = "get_integration_tokens"
    /\ vlog.found # PyNone
    /\ secret # NoSecret
    /\ ForeignRow(vlog.found, secret)
    /\ vlog.at < vlog.found.expires_at
    /\ DOMAIN vlog.out = {"error"}

\* C19: with no secret configured, constructing AuthService or
\* EncryptionService fails.
C19_FailsAtConstruction ==
    (vlog.op \in {"AuthService", "EncryptionService"} /\ vlog.key = NoSecret) =>
        vlog.out.exc # "none"

\* C20: after a create_tenant_with_admin call, every tenant the call created
\* has an admin user.
C20_TenantHasAdmin ==
    blog.op = "create_tenant_with_admin" =>
        \A t \in tenants \ blog.before :
            \E u \in users : u.tenant_id = t.id /\ u.role = "admin"

\* C21: a create_tenant_with_admin call that gives the email of a tenant
\* already in the table, or a new email with the subject of a user already in
\* the table, returns the conflict error and leaves the tenants and the
\* users exactly as they were before it.
C21_ConflictChangesNothing ==
    blog.op = "create_tenant_with_admin" =>
        LET emailTaken == \E t \in blog.before : t.email = blog.tenant_data.email
            subjectTaken == /\ blog.cognito_id.type = "str"
                            /\ \E u \in blog.usersBefore :
                                   u.cognito_id = blog.cognito_id.s
        IN  /\ emailTaken =>
                /\ blog.out = ErrorDict("A tenant with this email already exists")
                /\ tenants = blog.before /\ users = blog.usersBefore
            /\ (~emailTaken /\ subjectTaken) =>
                /\ blog.out = ErrorDict("User already exists")
                /\ tenants = blog.before /\ users = blog.usersBefore

\* a second call with a new email and the subject of the first call's user
C21_Witness ==
    /\ blog.op = "create_tenant_with_admin"
    /\ blog.before # {}
    /\ \A t \in blog.before : t.email # blog.tenant_data.email
    /\ blog.cognito_id.type = "str"
    /\ \E u \in blog.usersBefore : u.cognito_id = blog.cognito_id.s
    /\ blog.out = ErrorDict("User already exists")
    /\ tenants = blog.before /\ users = blog.usersBefore

\* C22: add_user_to_tenant returns "Tenant not found" when no tenant has the
\* given id and "User already exists" when a user with the given subject is
\* in the table, whatever that user's tenant; in both cases the users table
\* is as before; a call that succeeds adds one user, whose tenant is the
\* given tenant.
C22_AddUserToTenant ==
    blog.op = "add_user_to_tenant" =>
        LET tenantKnown == \E t \in blog.before : t.id = blog.tenant_id
            subjectTaken == /\ blog.cognito_id.type = "str"
                            /\ \E u \in blog.usersBefore :
                                   u.cognito_id = blog.cognito_id.s
        IN  /\ ~tenantKnown =>
                blog.out = ErrorDict("Tenant not found") /\ users = blog.usersBefore
            /\ (tenantKnown /\ subjectTaken) =>
                blog.out = ErrorDict("User already exists") /\ users = blog.usersBefore
            /\ "user" \in DOMAIN blog.out =>
                \E u \in users :
                    /\ users = blog.usersBefore \cup {u} /\ u \notin blog.usersBefore
                    /\ u.id = blog.out.user.id
                    /\ u.cognito_id = blog.cognito_id.s
                    /\ u.tenant_id = blog.tenant_id

\* the subject belongs to a user of another tenant than the given one
C22_Witness ==
    /\ blog.op = "add_user_to_tenant"
    /\ \E t \in blog.before : t.id = blog.tenant_id
    /\ blog.cognito_id.type = "str"
    /\ \E u \in blog.usersBefore :
           u.cognito_id = blog.cognito_id.s /\ u.tenant_id # blog.tenant_id
    /\ blog.out = ErrorDict("User already exists")
    /\ users = blog.usersBefore

\* The calls that update a user
UserUpdateOps ==
    {"update_user_info", "update_user_status",
     "update_user_status_by_cognito_id", "update_by_cognito_id"}

\* C23: after update_user (reached through PATCH /users/{user_id}),
\* update_by_cognito_id or update_user_status_by_cognito_id, every user that
\* was in the table is still in it with the tenant it had, whatever the
\* request body carried.
C23_TenantNeverChanges ==
    blog.op \in UserUpdateOps =>
        \A u \in blog.usersBefore :
            \E v \in users : v.id = u.id /\ v.tenant_id = u.tenant_id

\* an update whose body names another tenant than the user's goes through
C23_Witness ==
    /\ blog.op = "update_user_info"
    /\ blog.out.exc = "none"
    /\ "tenant_id" \in DOMAIN blog.body
    /\ \E u \in blog.usersBefore :
        /\ u.id = blog.user_id /\ u.tenant_id # blog.body.tenant_id
        /\ \E v \in users : v.id = u.id /\ v.first_name = "Bob" /\ v.tenant_id = u.tenant_id

\* C24: update_user_status_by_cognito_id (alone or through PATCH
\* /users/status/{cognito_id}) is the only call after which a user that was
\* pending is active; a user that was not pending is never pending
\* afterwards; a user a call has just created is not active.
C24_OnlyActivateLeavesPending ==
    (blog.op \in UserUpdateOps \cup {"create_tenant_with_admin", "add_user_to_tenant"}) =>
        /\ \A u \in blog.usersBefore : \A v \in users :
               v.id = u.id =>
                 /\ (u.status = "pending_confirmation" /\ v.status = "active") =>
                        blog.op \in {"update_user_status", "update_user_status_by_cognito_id"}
                 /\ u.status # "pending_confirmation" => v.status # "pending_confirmation"
        /\ \A v \in users :
               (\A u \in blog.usersBefore : u.id # v.id) => v.status # "active"

\* C29: after PATCH /users/{user_id} or PATCH /users/status/{cognito_id}
\* called by an admin, every user of another tenant than the admin's is as it
\* was, and when the target is such a user the answer is 404.
C29_NoCrossTenantChange ==
    (blog.op \in {"update_user_info", "update_user_status"}
     /\ blog.current_user.role = "admin") =>
        \A u \in blog.usersBefore :
            u.tenant_id # blog.current_user.tenant_id =>
                /\ u \in users
                /\ (blog.op = "update_user_info" /\ u.id = blog.user_id) =>
                       blog.out.status = 404
                /\ (blog.op = "update_user_status" /\ u.cognito_id = blog.cognito_id) =>
                       blog.out.status = 404

\* C28: with AUTH_ENABLED true, get_current_user returns a user only for
\* credentials that validate_token accepts, and the user is the row whose
\* cognito_id is the token's subject, with status active; a request with no
\* credentials, a token with no subject, a subject no user has and a user
\* that is pending or inactive are all rejected.
C28_OnlyActiveSubject ==
    (blog.op = "get_current_user" /\ auth_enabled) =>
        LET known == {u \in blog.rows : u.cognito_id = blog.credentials.sub} IN
        /\ blog.out.exc = "none" =>
            /\ blog.credentials # NoCredentials
            /\ ValidFor(blog.credentials, jwk_keys, now)
            /\ blog.out.payload \in known
            /\ blog.out.payload.status = "active"
        /\ blog.credentials = NoCredentials =>
               blog.out = HTTPException(401, "Authentication required")
        /\ (blog.credentials # NoCredentials /\ ValidFor(blog.credentials, jwk_keys, now)) =>
            /\ blog.credentials.sub = "" =>
                   blog.out = HTTPException(401, "Invalid user identity in token")
            /\ (blog.credentials.sub # "" /\ known = {}) =>
                   blog.out = HTTPException(404, "User not found")
            /\ (\E u \in known : u.status # "active") =>
                   blog.out = HTTPException(403, "User account is inactive or suspended")
        /\ (blog.credentials.sub = "" \/ \A u \in known : u.status # "active") =>
               blog.out.exc # "none"

\* an active user is returned while another user is in the table
C28_Witness ==
    /\ blog.op = "get_current_user" /\ auth_enabled
    /\ blog.out.exc = "none"
    /\ blog.out.payload.cognito_id = blog.credentials.sub
    /\ \E u \in blog.rows : u.cognito_id # blog.credentials.sub

\* C25: every user and every integration key references a tenant that is in
\* the tenants table, and after TenantRepository.delete of a tenant that was
\* in the table, the tenant, its users and its integration keys are gone.
C25_DeleteCascades ==
    /\ \A u \in users : \E t \in tenants : t.id = u.tenant_id
    /\ \A k \in ikeys : \E t \in tenants : t.id = k.tenant_id
    /\ (blog.op = "TenantRepository.delete"
        /\ \E t \in blog.before : t.id = blog.tenant_id) =>
           /\ blog.out.exc = "none"
           /\ \A t \in tenants : t.id # blog.tenant_id
           /\ \A u \in users : u.tenant_id # blog.tenant_id
           /\ \A k \in ikeys : k.tenant_id # blog.tenant_id

\* a validate_token call on a token whose header and payload decode and
\* whose exp is not after the time of the call
ExpiredCall ==
    log.op = "validate_token" /\ log.token.form = "jwt" /\ log.token.exp <= log.at

\* the key set the call obtained has the token's kid, and the token is
\* RS256-signed with that key
SignatureVerifies ==
    /\ log.jwk.fetch # "notcalled" /\ log.jwk.raised = "none"
    /\ log.token.kid \in DOMAIN log.jwk.ret
    /\ log.token.alg = "RS256"
    /\ log.token.signer = log.jwk.ret[log.token.kid]

\* C27 as stated: validate_token answers every token whose exp is in the
\* past with 401 "Token has expired".
C27_ExpiredAlwaysExpired ==
    ExpiredCall => log.out = HTTPException(401, "Token has expired")

\* C27: validate_token never returns claims for a token whose exp is in the
\* past, and answers it with 401 "Token has expired" when its signature
\* verifies against the key of its kid, whatever its audience.
C27_ExpiredVerifiedToken ==
    ExpiredCall =>
        /\ log.out.exc # "none"
        /\ SignatureVerifies => log.out = HTTPException(401, "Token has expired")

\* an expired token, well signed, for another audience
C27_Witness ==
    /\ ExpiredCall /\ SignatureVerifies
    /\ log.token.aud # AWS_COGNITO_CLIENT_ID
    /\ log.out = HTTPException(401, "Token has expired")

\* C30: store_integration_tokens given a token response whose access token
\* or refresh token is absent or empty returns the error "Missing required
\* tokens" and leaves the integration keys as they were.
C30_MissingTokenWritesNothing ==
    (vlog.op = "store_integration_tokens"
     /\ (~Truthy(vlog.a.token_data.access_token)
         \/ ~Truthy(vlog.a.token_data.refresh_token))) =>
        /\ vlog.out = ErrorDict("Missing required tokens")
        /\ ikeys = vlog.before

\* an access token with an empty refresh token, given to a service that can
\* encrypt
C30_Witness ==
    /\ vlog.op = "store_integration_tokens"
    /\ secret \in WorkingSecrets
    /\ Truthy(vlog.a.token_data.access_token)
    /\ vlog.a.token_data.refresh_token = Str("")
    /\ vlog.out = ErrorDict("Missing required tokens")
    /\ ikeys = vlog.before

\* The secrets in play in the adapter call that has just returned: the client
\* secret, the refresh token given to refresh_access_token, and the access
\* and refresh tokens of the provider's answer
SecretsInPlay ==
    {ZOHO_CLIENT_SECRET}
    \cup (IF zlog.op = "refresh_access_token" THEN {zlog.arg} ELSE {})
    \cup {zlog.response.body[k] :
             k \in DOMAIN zlog.response.body \cap {"access_token", "refresh_token"}}

\* a dict that is logged or put in an error message shows a secret
Shows(fields) == \E k \in DOMAIN fields : fields[k] \in SecretsInPlay

\* C26: after exchange_auth_code or refresh_access_token, however the call
\* ended, no log record it emitted and no error it raised shows the client
\* secret, an access token or a refresh token.
C26_NoSecretInLogs ==
    zlog.op # "none" =>
        /\ \A i \in DOMAIN zlog.records : ~Shows(zlog.records[i].fields)
        /\ zlog.out.exc # "none" => ~Shows(zlog.out.fields)

\* the provider refuses with an answer that carries both tokens
C26_Witness ==
    /\ zlog.op = "refresh_access_token"
    /\ zlog.response.status_code # 200
    /\ {"access_token", "refresh_token"} \subseteq DOMAIN zlog.response.body
    /\ zlog.out.exc = "ValueError"
    /\ Len(zlog.records) > 2

====
